---- MODULE Spec2Model ----
(***************************************************************************)
(* Verification model of the Plum EcoMAX boiler integration:               *)
(*   - the frame codec and CRC-16 (plum_protocol.py),                      *)
(*   - the stream reassembler of AsyncPlumTransport.read_frame,            *)
(*   - the device driver PlumDevice (plum_ecomax and the older GM3_HA),    *)
(*   - the coordinator/cache PlumDataUpdateCoordinator.                    *)
(* Optional values are sequences: <<>> is Python's None, <<v>> is v.       *)
(* Numeric parameter values are counted in hundredths (the driver rounds   *)
(* every decoded value to 2 decimals), so 999.0 is 99900.                  *)
(***************************************************************************)
EXTENDS Integers, Sequences, FiniteSets, TLC

VARIABLES
    t_scn,      \* transport: which stream the peer sends ("noise", "corrupt",
                \* "clean", "overlap" or "front")
    t_frame,    \* transport: the valid frame that ends the stream
    t_stream,   \* transport: all bytes the peer sends, in order
    t_pos,      \* transport: number of bytes already delivered by reader.read
    t_buffer,   \* AsyncPlumTransport._buffer
    t_pc,       \* "idle" or "reading" (inside read_frame)
    t_ret,      \* what the last read_frame call returned (<<>> is None)
    t_yielded,  \* every frame returned by read_frame so far, in order
    t_why,      \* why the last read_frame call ended
    d_variant,  \* driver: "plum_ecomax" or "GM3_HA" (the two PlumDevice classes)
    d_session,  \* PlumDevice.session_id
    d_cache,    \* PlumDevice._data_cache (plum_ecomax only): slug -> optional value
    d_pc,       \* "idle" or "attempt" (inside get_value, before an attempt)
    d_slug,     \* get_value: argument slug
    d_retries,  \* get_value: argument retries
    d_attempt,  \* get_value: loop variable attempt
    d_ret,      \* what the last get_value call returned
    d_calls,    \* number of get_value calls made so far
    d_rx,       \* bytes received by the last physical transaction (<<>>: none)
    d_val,      \* what the last _sync_get_value returned
    d_got,      \* value decoded from a response during the current call
    d_last,     \* slug -> value most recently decoded from a response, in any call
    d_txns,     \* physical read transactions performed by the current call
    v_slug,     \* _validate_value: argument slug
    v_raw,      \* _validate_value: argument raw_val
    v_cached,   \* _validate_value: argument cached_val
    v_out,      \* <<>> before the call, then <<[valid, val]>>: the returned tuple
    c_clock,    \* time.time(), in seconds
    c_setup,    \* the first refresh has returned: the entities exist
    c_quota,    \* calls of async_set_value the entities may still make
    c_available,\* self.available_slugs
    c_cache,    \* self._cache: slug -> value, <<>> when absent
    c_ts,       \* self._timestamps: slug -> time, 0 when absent
    c_pc,       \* _async_update_data: "idle", "disc" or "loop" (awaiting get_value)
    c_now,      \* _async_update_data: now
    c_targets,  \* _detect_available_parameters: known targets not yet read
    c_valid,    \* _detect_available_parameters: valid_slugs
    c_iter,     \* the list the loop of _async_update_data iterates
    c_idx,      \* position of the slug being fetched in that list
    c_snap,     \* cached_val of the slug being fetched
    c_build,    \* the dict `data` of the running (or last) _async_update_data
    c_data,     \* the dict returned by the last completed refresh
    c_alias,    \* coordinator.data is self._cache (async_set_updated_data)
    c_tasks,    \* the background tasks _perform_repeated_write
    c_ghost,    \* history of the running cycle: what was fresh, hit, fetched
    c_last,     \* the last coordinator event
    x_session,  \* PlumDevice.session_id, shared by the worker threads
    x_th,       \* thread -> state of the get_value / set_value call it serves
    x_inflight, \* threads whose socket is open (connected, not yet closed)
    x_txns,     \* physical transactions begun since the driver was created
    k_def,      \* codec: the parameter definition (type, exponent)
    k_v,        \* codec: the value given to _encode, in hundredths
    k_bytes,    \* codec: the bytes _encode returned or _decode was given
    k_out,      \* codec: what _decode returned
    k_pc,       \* codec: "idle", "encoded", "decoded", "raw" or "read"
    n_val,      \* sensor: coordinator.data.get(slug), <<>> when missing
    n_numeric,  \* sensor: a unit or a device class is configured
    n_base,     \* sensor: CoordinatorEntity.available (last update succeeded)
    n_native,   \* sensor: what native_value returned, Unread before
    n_avail,    \* sensor: what available returned, <<>> before
    b_cmd,      \* frame builder: the function code
    b_payload,  \* frame builder: the payload
    b_frame,    \* frame builder: <<_build_frame(cmd, payload)>>, <<>> before
    b_ref,      \* frame builder: <<BoilerFrame(1, 100, cmd, payload).to_bytes()>>
    b_crc,      \* frame builder: <<_crc16(payload), compute_crc16(payload)>>
    b_parsed,   \* frame builder: <<what read_frame makes of the built frame>>
    l_lock,     \* lock: who holds self._cache_lock, "none" when it is free
    l_pc,       \* lock: _async_update_data is "idle" or awaits get_value ("get")
    l_idx,      \* lock: position in available_slugs of the slug being fetched
    l_fresh,    \* lock: the slugs cached with a timestamp younger than the TTL
    l_w,        \* lock: write -> position and sends of async_set_value and its task
    s_dev,      \* driver under the coordinator: PlumDevice._data_cache
    s_phys      \* driver under the coordinator: the get_value that returned
                \* last decoded its value from a response (<<>> before any)

tvars == <<t_scn, t_frame, t_stream, t_pos, t_buffer, t_pc, t_ret, t_yielded, t_why>>
dvars == <<d_variant, d_session, d_cache, d_pc, d_slug, d_retries, d_attempt,
           d_ret, d_calls, d_rx, d_val, d_got, d_last, d_txns>>

vvars == <<v_slug, v_raw, v_cached, v_out>>

cvars == <<c_clock, c_setup, c_quota, c_available, c_cache, c_ts, c_pc, c_now, c_targets,
           c_valid, c_iter, c_idx, c_snap, c_build, c_data, c_alias, c_tasks,
           c_ghost, c_last>>

xvars == <<x_session, x_th, x_inflight, x_txns>>

kvars == <<k_def, k_v, k_bytes, k_out, k_pc>>

nvars == <<n_val, n_numeric, n_base, n_native, n_avail>>

bvars == <<b_cmd, b_payload, b_frame, b_ref, b_crc, b_parsed>>

lvars == <<l_lock, l_pc, l_idx, l_fresh, l_w>>

svars == <<s_dev, s_phys>>

vars == <<tvars, dvars, vvars, cvars, xvars, kvars, nvars, bvars, lvars, svars>>

\* everything but one component
notT == <<dvars, vvars, cvars, xvars, kvars, nvars, bvars, lvars, svars>>
notD == <<tvars, vvars, cvars, xvars, kvars, nvars, bvars, lvars, svars>>
notV == <<tvars, dvars, cvars, xvars, kvars, nvars, bvars, lvars, svars>>
notC == <<tvars, dvars, vvars, xvars, kvars, nvars, bvars, lvars, svars>>
notX == <<tvars, dvars, vvars, cvars, kvars, nvars, bvars, lvars, svars>>
notK == <<tvars, dvars, vvars, cvars, xvars, nvars, bvars, lvars, svars>>
notN == <<tvars, dvars, vvars, cvars, xvars, kvars, bvars, lvars, svars>>
notB == <<tvars, dvars, vvars, cvars, xvars, kvars, nvars, lvars, svars>>
notL == <<tvars, dvars, vvars, cvars, xvars, kvars, nvars, bvars, svars>>
\* everything but the coordinator and the driver under it
notCS == <<tvars, dvars, vvars, xvars, kvars, nvars, bvars, lvars>>

NoneV == <<>>
Some(v) == <<v>>

(***************************************************************************)
(* Bounds of the model.                                                    *)
(***************************************************************************)
MaxNoise == 2
MaxCalls == 2
MaxRetries == 2

(***************************************************************************)
(* plum_protocol.py: constants, CRC-16, BoilerFrame.                       *)
(***************************************************************************)
START_BYTE == 104
STOP_BYTE == 22

\* a ^ b on 16-bit values: bit by bit, p the weight of the bit
Xor(a, b) ==
    LET x(p) == IF (b \div p) % 2 = 0 THEN 0
                ELSE IF (a \div p) % 2 = 1 THEN 0 - p ELSE p
    IN a + x(1) + x(2) + x(4) + x(8) + x(16) + x(32) + x(64) + x(128)
         + x(256) + x(512) + x(1024) + x(2048) + x(4096) + x(8192)
         + x(16384) + x(32768)

\* if crc & 0x8000: crc = (crc << 1) ^ poly else: crc <<= 1; crc &= 0xFFFF
CrcShift(crc) ==
    IF crc >= 32768 THEN Xor((crc * 2) % 65536, 4129) ELSE (crc * 2) % 65536

\* crc ^= (b << 8), then the 8 shifts of `for _ in range(8)`
CrcByte(crc, b) ==
    CrcShift(CrcShift(CrcShift(CrcShift(
    CrcShift(CrcShift(CrcShift(CrcShift(Xor(crc, b * 256)))))))))

\* `for b in data`: the register after the first n bytes
RECURSIVE CrcFold(_, _)
CrcFold(data, n) ==
    IF n = 0 THEN 0
    ELSE CHOOSE r \in {CrcByte(crc, data[n]) : crc \in {CrcFold(data, n - 1)}} : TRUE

compute_crc16(data) == CrcFold(data, Len(data))

LE16(n) == <<n % 256, n \div 256>>
BE16(n) == <<n \div 256, n % 256>>

\* BoilerFrame.to_bytes
to_bytes(f) ==
    LET l_val == 2 + 2 + 1 + Len(f.data)
        body == LE16(l_val) \o LE16(f.dest) \o LE16(f.src) \o <<f.func>> \o f.data
    IN <<START_BYTE>> \o body \o BE16(compute_crc16(body)) \o <<STOP_BYTE>>

\* from_bytes reading the two address fields in the other order
FromBytesSwapped(data) ==
    [dest |-> data[3] + 256 * data[4],
     src  |-> data[1] + 256 * data[2],
     func |-> data[5],
     data |-> SubSeq(data, 6, Len(data))]

\* BoilerFrame.from_bytes, on at least 5 bytes (fewer bytes raise in Python)
from_bytes(data) ==
    [dest |-> data[1] + 256 * data[2],
     src  |-> data[3] + 256 * data[4],
     func |-> data[5],
     data |-> SubSeq(data, 6, Len(data))]

(***************************************************************************)
(* plum_transport.py: the parsing loop of read_frame.                      *)
(***************************************************************************)
\* bytearray.index: position of the first x (1-based), 0 when absent
IndexOf(buf, x) ==
    IF \E i \in 1..Len(buf) : buf[i] = x
    THEN CHOOSE i \in 1..Len(buf) : buf[i] = x /\ \A j \in 1..(i - 1) : buf[j] # x
    ELSE 0

\* One run of the `while True` parsing loop on the buffer. kind is
\*   "wait"  : the loop breaks, read_frame goes on reading;
\*   "frame" : read_frame returns the frame;
\*   "error" : from_bytes raises on a body shorter than 5 bytes, the outer
\*             `except Exception` returns None (the buffer is not consumed).
RECURSIVE ParseLoop(_)
ParseLoop(buf) ==
    LET start_idx == IndexOf(buf, START_BYTE) IN
    IF start_idx = 0 THEN [kind |-> "wait", buf |-> <<>>, frame |-> NoneV]
    ELSE
      LET b == SubSeq(buf, start_idx, Len(buf)) IN
      IF Len(b) < 3 THEN [kind |-> "wait", buf |-> b, frame |-> NoneV]
      ELSE
        LET l_val == b[2] + 256 * b[3]
            total_len == l_val + 6
        IN
        IF Len(b) < total_len THEN [kind |-> "wait", buf |-> b, frame |-> NoneV]
        ELSE
          LET frame_bytes == SubSeq(b, 1, total_len)
              body_end == 1 + 2 + l_val
              body == SubSeq(frame_bytes, 2, body_end)
              received_crc == frame_bytes[body_end + 1] * 256 + frame_bytes[body_end + 2]
          IN
          IF compute_crc16(body) = received_crc /\ frame_bytes[total_len] = STOP_BYTE
          THEN IF l_val < 5
               THEN [kind |-> "error", buf |-> b, frame |-> NoneV]
               ELSE [kind |-> "frame",
                     buf |-> SubSeq(b, total_len + 1, Len(b)),
                     frame |-> Some(from_bytes(SubSeq(body, 3, Len(body))))]
          ELSE ParseLoop(Tail(b))

(***************************************************************************)
(* The peer of the transport: what arrives on the socket.                  *)
(***************************************************************************)
TFrames ==
    {[dest |-> 1, src |-> 100, func |-> f, data |-> p] :
        f \in {195}, p \in {<<>>, <<104>>, <<7, 0>>}}

NoiseBytes == {0, 22, 104, 255}
CorruptBytes == {0, 6, 104, 255}

RECURSIVE SeqsUpTo(_, _)
SeqsUpTo(S, n) ==
    IF n = 0 THEN {<<>>}
    ELSE LET shorter == SeqsUpTo(S, n - 1)
         IN shorter \cup {Append(s, x) : s \in {q \in shorter : Len(q) = n - 1}, x \in S}

\* the bytes of f with the byte at position p (1-based, inside the span the
\* CRC covers: length, dest, src, func, payload) replaced by x
Corrupted(f, p, x) == [to_bytes(f) EXCEPT ![p] = x]
CrcCovered(f) == 2..(3 + 5 + Len(f.data))

\* frames whose fields take the ends of their ranges and the framing bytes
CleanFrames ==
    {[dest |-> d, src |-> s, func |-> f, data |-> p] :
        d \in {0, 26728, 65535}, s \in {1, 5736, 65535}, f \in {0, 104, 255},
        p \in {<<>>, <<22>>, <<104, 0, 255>>}}

\* a candidate of total length 7 that fails the checks, cut short after its
\* length field, and what may lie between it and the next frame
BrokenHead == <<START_BYTE, 1, 0>>
GapBytes == {<<>>, <<0>>, <<START_BYTE>>}

\* a candidate that passes the CRC and stop-byte checks with an empty content
\* (length field 0: no dest, src and func)
EmptyCandidate == <<START_BYTE, 0, 0, 0, 0, STOP_BYTE>>

TInit ==
    /\ \/ t_frame \in TFrames /\ t_scn \in {"noise", "corrupt", "overlap", "front"}
       \/ t_frame \in CleanFrames /\ t_scn = "clean"
    /\ \/ /\ t_scn = "clean"
          /\ t_stream = to_bytes(t_frame)
       \/ /\ t_scn = "overlap"
          /\ \E gap \in GapBytes : t_stream = BrokenHead \o gap \o to_bytes(t_frame)
       \/ /\ t_scn = "front"
          /\ \E cand \in {to_bytes(f) : f \in TFrames} \cup {EmptyCandidate} :
               t_stream = cand \o to_bytes(t_frame)
       \/ /\ t_scn = "noise"
          /\ \E n \in SeqsUpTo(NoiseBytes, MaxNoise) : t_stream = n \o to_bytes(t_frame)
       \/ /\ t_scn = "corrupt"
          /\ \E f \in TFrames : \E p \in CrcCovered(f) :
               \E x \in CorruptBytes \ {to_bytes(f)[p]} :
                 t_stream = Corrupted(f, p, x) \o to_bytes(t_frame)
    /\ t_pos = 0
    /\ t_buffer = <<>>
    /\ t_pc = "idle"
    /\ t_ret = NoneV
    /\ t_yielded = <<>>
    /\ t_why = "none"

\* read_frame is entered (the reader is connected)
ReadFrameCall ==
    /\ t_pc = "idle"
    /\ t_pc' = "reading"
    /\ t_ret' = NoneV
    /\ t_why' = "none"
    /\ UNCHANGED <<t_scn, t_frame, t_stream, t_pos, t_buffer, t_yielded>>
    /\ UNCHANGED notT

\* reader.read(1024) returns the next k bytes; the buffer is extended and parsed
RecvChunk ==
    /\ t_pc = "reading"
    /\ \E k \in 1..(Len(t_stream) - t_pos) :
         LET chunk == SubSeq(t_stream, t_pos + 1, t_pos + k)
             r == ParseLoop(t_buffer \o chunk)
         IN /\ t_pos' = t_pos + k
            /\ t_buffer' = r.buf
            /\ IF r.kind = "wait"
               THEN UNCHANGED <<t_pc, t_ret, t_yielded, t_why>>
               ELSE /\ t_pc' = "idle"
                    /\ t_ret' = r.frame
                    /\ t_yielded' = t_yielded \o r.frame
                    /\ t_why' = r.kind
    /\ UNCHANGED <<t_scn, t_frame, t_stream>>
    /\ UNCHANGED notT

\* reader.read returns b'' (the peer closed after its last byte): return None
RecvEof ==
    /\ t_pc = "reading"
    /\ t_pos = Len(t_stream)
    /\ t_pc' = "idle"
    /\ t_ret' = NoneV
    /\ t_why' = "closed"
    /\ UNCHANGED <<t_scn, t_frame, t_stream, t_pos, t_buffer, t_yielded>>
    /\ UNCHANGED notT

\* reader.read raises (connection reset): `except Exception` returns None
RecvError ==
    /\ t_pc = "reading"
    /\ t_pc' = "idle"
    /\ t_ret' = NoneV
    /\ t_why' = "reset"
    /\ UNCHANGED <<t_scn, t_frame, t_stream, t_pos, t_buffer, t_yielded>>
    /\ UNCHANGED notT

\* the deadline of read_frame passes: the while loop ends, return None
ReadTimeout ==
    /\ t_pc = "reading"
    /\ t_pc' = "idle"
    /\ t_ret' = NoneV
    /\ t_why' = "timeout"
    /\ UNCHANGED <<t_scn, t_frame, t_stream, t_pos, t_buffer, t_yielded>>
    /\ UNCHANGED notT

TNext == ReadFrameCall \/ RecvChunk \/ RecvEof \/ RecvError \/ ReadTimeout

\* the transport left out of a specification
TOff ==
    /\ t_scn = "off"
    /\ t_frame = NoneV
    /\ t_stream = <<>>
    /\ t_pos = 0
    /\ t_buffer = <<>>
    /\ t_pc = "off"
    /\ t_ret = NoneV
    /\ t_yielded = <<>>
    /\ t_why = "off"

(***************************************************************************)
(* The parameter map (device_map_*.json): slug -> definition. Slugs are    *)
(* sequences of characters, so that `keyword in slug` is a substring test. *)
(* min, max and max_delta are optional; values are in hundredths.          *)
(***************************************************************************)
S_TEMP == <<"t", "e", "m", "p">>
S_TEMPSET == <<"t", "e", "m", "p", "s", "e", "t">>
S_FANRPM == <<"f", "a", "n", "r", "p", "m">>
S_MODE == <<"m", "o", "d", "e">>
S_LEVEL == <<"l", "e", "v", "e", "l">>
S_BURN == <<"b", "u", "r", "n">>
S_DTEMP == <<"d", "t", "e", "m", "p">>
S_PRESSURE == <<"p", "r", "e", "s", "s", "u", "r", "e">>
S_FANPOWER == <<"f", "a", "n", "p", "o", "w", "e", "r">>
S_PRESSTEMP == <<"p", "r", "e", "s", "s", "u", "r", "e", "t", "e", "m", "p">>
S_GHOST == <<"g", "h", "o", "s", "t">>

Param(id, type, exponent, min, max, max_delta) ==
    [id |-> id, type |-> type, exponent |-> exponent,
     min |-> min, max |-> max, max_delta |-> max_delta]

params_map ==
    (S_TEMP :> Param(5, "WORD", -1, NoneV, NoneV, NoneV))
    @@ (S_TEMPSET :> Param(7, "WORD", 0, Some(1000), Some(5000), Some(1500)))
    @@ (S_FANRPM :> Param(9, "WORD", 0, Some(0), Some(200000), NoneV))
    @@ (S_MODE :> Param(11, "BYTE", 0, NoneV, NoneV, NoneV))
    @@ (S_LEVEL :> Param(13, "WORD", 0, Some(0), NoneV, NoneV))
    @@ (S_BURN :> Param(15, "BYTE", 0, NoneV, Some(10000), Some(1000)))
    @@ (S_DTEMP :> Param(17, "WORD", -1, NoneV, NoneV, Some(1000)))
    @@ (S_PRESSURE :> Param(19, "BYTE", -1, NoneV, NoneV, NoneV))
    @@ (S_FANPOWER :> Param(21, "BYTE", 0, NoneV, NoneV, NoneV))
    @@ (S_PRESSTEMP :> Param(23, "WORD", -1, NoneV, NoneV, NoneV))

\* dict.get(slug): <<>> when the slug is absent
GetParam(slug) == IF slug \in DOMAIN params_map THEN Some(params_map[slug]) ELSE NoneV

(***************************************************************************)
(* plum_device.py: PlumDevice (plum_ecomax) and GM3_HA/plum_device.py.     *)
(***************************************************************************)
DEST_ID == 1
SOURCE_ID == 100
CMD_READ_VAL == 67
CMD_WRITE_FORCE == 41
SESSION_MODULUS == 65000

\* struct.unpack("<h") and struct.unpack("<i"): two's complement
Signed(n, bits) == IF n >= 2 ^ (bits - 1) THEN n - 2 ^ bits ELSE n

\* val * (10 ** exp), rounded to 2 decimals, in hundredths (exp >= -2)
Scaled(raw, exp) == raw * (10 ^ (exp + 2))

\* Python's round(n / d) for d > 0: half to even
RoundHalfEven(n, d) ==
    LET q == n \div d
        r == n % d
    IN IF 2 * r < d THEN q
       ELSE IF 2 * r > d THEN q + 1
       ELSE IF q % 2 = 0 THEN q ELSE q + 1

\* struct.unpack("<i"): the top byte carries the sign
Signed32(data) ==
    data[1] + 256 * data[2] + 65536 * data[3]
      + 16777216 * (IF data[4] >= 128 THEN data[4] - 256 ELSE data[4])

\* round(struct.unpack("<f", data[:4])[0], 2) in hundredths: IEEE-754 single
\* precision, sign, 8 bits of exponent, 23 of mantissa (magnitudes of 2^-7 up
\* to 2^23; zero is all bits clear)
FloatValue(data) ==
    LET sign == data[4] \div 128
        e == 2 * (data[4] % 128) + data[3] \div 128
        mant == 65536 * (data[3] % 128) + 256 * data[2] + data[1]
        h == IF e = 0 THEN 0
             ELSE RoundHalfEven(100 * (8388608 + mant), 2 ^ (150 - e))
    IN IF sign = 1 THEN 0 - h ELSE h

\* val * (10 ** exp) for the float type, rounded to 2 decimals, in hundredths
ScaledFloat(h, exp) ==
    IF exp >= 0 THEN h * (10 ^ exp)
    ELSE IF h >= 0 THEN RoundHalfEven(h, 10 ^ (0 - exp))
    ELSE 0 - RoundHalfEven(0 - h, 10 ^ (0 - exp))

\* a decoder that takes what is there: the first byte of a short answer
DecodeIgnoringWidth(data, param_def) ==
    IF Len(data) >= 1 THEN Some(Scaled(data[1], param_def.exponent)) ELSE NoneV

\* PlumDevice._decode: <<>> is "no value" (None)
_decode(data, param_def) ==
    LET ptype == param_def.type
        exp == param_def.exponent
        val == IF ptype \in {"BYTE", "SHORT_INT", "BOOL"} /\ Len(data) >= 1
                  THEN Some(data[1])
               ELSE IF ptype \in {"INT", "WORD"} /\ Len(data) >= 2
                  THEN Some(Signed(data[1] + 256 * data[2], 16))
               ELSE IF ptype \in {"DWORD", "LONG_INT"} /\ Len(data) >= 4
                  THEN Some(Signed32(data))
               ELSE NoneV
    IN IF ptype = "FLOAT" /\ Len(data) >= 4
          THEN Some(ScaledFloat(FloatValue(data), exp))
       ELSE IF val = NoneV THEN NoneV
       ELSE Some(Scaled(val[1], exp))

\* PlumDevice._crc16, one pass of `for _ in range(8)`: n passes are left
RECURSIVE Crc16Bits(_, _)
Crc16Bits(crc, n) ==
    IF n = 0 THEN crc
    ELSE Crc16Bits(IF (crc \div 32768) % 2 = 1
                   THEN Xor((2 * crc) % 65536, 4129)
                   ELSE (2 * crc) % 65536, n - 1)

\* PlumDevice._crc16, `for b in data` from the register value init on: the
\* register after the first n bytes
RECURSIVE Crc16Bytes(_, _, _)
Crc16Bytes(data, n, init) ==
    IF n = 0 THEN init
    ELSE CHOOSE r \in {Crc16Bits(Xor(crc, data[n] * 256), 8) :
                          crc \in {Crc16Bytes(data, n - 1, init)}} : TRUE

\* a checksum that starts from 0xFFFF
Crc16FromFFFF(data) == Crc16Bytes(data, Len(data), 65535)

\* PlumDevice._crc16
_crc16(data) == Crc16Bytes(data, Len(data), 0)

\* PlumDevice._build_frame
_build_frame(cmd, payload) ==
    LET l_val == 5 + Len(payload)
        body == LE16(l_val) \o LE16(DEST_ID) \o LE16(SOURCE_ID) \o <<cmd>> \o payload
    IN <<104>> \o body \o BE16(_crc16(body)) \o <<22>>

\* struct.pack("<HB BH", session_id, 1, 1, pid): the read request payload
ReadPayload(session_id, pid) == LE16(session_id) \o <<1, 1>> \o LE16(pid)

\* _socket_transaction once the whole answer `buffer` has been received
\* (rx = <<>>: timeout or socket error, the result is None). The result is
\* the payload buffer[idx+8:-3], wrapped as an optional value.
SocketTransactionPlum(rx) ==
    IF rx # <<>> /\ IndexOf(rx, 104) # 0 /\ rx[Len(rx)] = 22
    THEN Some(SubSeq(rx, IndexOf(rx, 104) + 8, Len(rx) - 3))
    ELSE NoneV

SocketTransactionGM3(rx, expected_cmd) ==
    LET idx == IndexOf(rx, 104) - 1 IN
    IF rx # <<>> /\ idx >= 0 /\ Len(rx) > idx + 8
       /\ rx[idx + 8] = (IF expected_cmd >= 128 THEN expected_cmd ELSE expected_cmd + 128)
    THEN Some(SubSeq(rx, idx + 9, Len(rx) - 3))
    ELSE NoneV

\* the part of _sync_get_value after the transaction: resp is the optional
\* payload, session_id the id sent in the request
SyncGetValuePlum(resp, param) ==
    IF resp # NoneV /\ Len(resp[1]) > 7
    THEN _decode(SubSeq(resp[1], 8, Len(resp[1])), param)
    ELSE NoneV

SyncGetValueGM3(resp, param, session_id) ==
    IF resp # NoneV /\ Len(resp[1]) > 2
    THEN LET rec_sess == resp[1][1] + 256 * resp[1][2] IN
         IF rec_sess = session_id \/ rec_sess = 0
         THEN _decode(SubSeq(resp[1], 8, Len(resp[1])), param)
         ELSE NoneV
    ELSE NoneV

_sync_get_value(variant, rx, param, session_id) ==
    IF variant = "plum_ecomax"
    THEN SyncGetValuePlum(SocketTransactionPlum(rx), param)
    ELSE SyncGetValueGM3(SocketTransactionGM3(rx, CMD_READ_VAL), param, session_id)

\* a driver that forgets: no value whenever every attempt failed
FallbackNone(variant, data_cache, slug) == NoneV

\* what get_value returns once every attempt has failed
GetValueFallback(variant, data_cache, slug) ==
    IF variant = "plum_ecomax" THEN data_cache[slug] ELSE NoneV

(***************************************************************************)
(* The boiler: what may come back on the socket for a read request.        *)
(***************************************************************************)
DevSlugs == {S_TEMP, S_MODE, S_GHOST}
RespData == {<<>>, <<25>>, <<200, 0>>}
RespFuncs == {195, 169}

\* answer payload: session id, 5 bytes the driver skips, then the data
RespPayload(sess, pid, data) == LE16(sess) \o <<1, 1>> \o LE16(pid) \o <<0>> \o data

Responses(sent, pid) ==
    {<<>>} \cup
    {to_bytes([dest |-> SOURCE_ID, src |-> DEST_ID, func |-> f,
               data |-> RespPayload(s, pid, dt)]) :
        f \in RespFuncs, s \in {sent, 0, 7}, dt \in RespData}

\* the session id in the first 16-bit field of a received answer
RespSession(rx) == rx[9] + 256 * rx[10]

DInit ==
    /\ d_variant \in {"plum_ecomax", "GM3_HA"}
    /\ d_session \in {10, SESSION_MODULUS - 1}
    /\ d_cache = [s \in DevSlugs |-> NoneV]
    /\ d_pc = "idle"
    /\ d_slug = S_GHOST
    /\ d_retries = 0
    /\ d_attempt = 0
    /\ d_ret = NoneV
    /\ d_calls = 0
    /\ d_rx = <<>>
    /\ d_val = NoneV
    /\ d_got = NoneV
    /\ d_last = [s \in DevSlugs |-> NoneV]
    /\ d_txns = 0

\* a retry loop that makes one pass too many
GetValueGoesOnOnceMore(attempt, retries) == attempt <= retries

\* `for attempt in range(1, retries + 1)`: after a failed attempt there is
\* another one
GetValueGoesOn(attempt, retries) == attempt < retries

\* get_value(slug, retries) is called; an unknown slug returns None at once
GetValueCall ==
    /\ d_pc = "idle"
    /\ d_calls < MaxCalls
    /\ \E slug \in DevSlugs, retries \in 1..MaxRetries :
         /\ d_slug' = slug
         /\ d_retries' = retries
         /\ d_pc' = IF GetParam(slug) = NoneV THEN "idle" ELSE "attempt"
    /\ d_attempt' = 1
    /\ d_ret' = NoneV
    /\ d_calls' = d_calls + 1
    /\ d_rx' = <<>>
    /\ d_val' = NoneV
    /\ d_got' = NoneV
    /\ d_txns' = 0
    /\ UNCHANGED <<d_variant, d_session, d_cache, d_last>>
    /\ UNCHANGED notD

\* one pass of the retry loop: _sync_get_value in a worker thread, then
\* either return the value or sleep and go on; after the last failed
\* attempt get_value returns its fallback
GetValueAttempt ==
    /\ d_pc = "attempt"
    /\ LET param == params_map[d_slug]
           sess == (d_session + 1) % SESSION_MODULUS
       IN \E rx \in Responses(sess, param.id) :
            LET val == _sync_get_value(d_variant, rx, param, sess) IN
            /\ d_session' = sess
            /\ d_rx' = rx
            /\ d_val' = val
            /\ d_txns' = d_txns + 1
            /\ IF val # NoneV
               THEN /\ d_cache' = IF d_variant = "plum_ecomax"
                                  THEN [d_cache EXCEPT ![d_slug] = val] ELSE d_cache
                    /\ d_last' = [d_last EXCEPT ![d_slug] = val]
                    /\ d_got' = val
                    /\ d_ret' = val
                    /\ d_pc' = "idle"
                    /\ UNCHANGED d_attempt
               ELSE /\ UNCHANGED <<d_cache, d_last, d_got>>
                    /\ IF GetValueGoesOn(d_attempt, d_retries)
                       THEN /\ d_attempt' = d_attempt + 1
                            /\ UNCHANGED <<d_pc, d_ret>>
                       ELSE /\ d_ret' = GetValueFallback(d_variant, d_cache, d_slug)
                            /\ d_pc' = "idle"
                            /\ UNCHANGED d_attempt
    /\ UNCHANGED <<d_variant, d_slug, d_retries, d_calls>>
    /\ UNCHANGED notD

DNext == GetValueCall \/ GetValueAttempt

\* the driver left out of a specification
DOff ==
    /\ d_variant = "off"
    /\ d_session = 10
    /\ d_cache = <<>>
    /\ d_pc = "off"
    /\ d_slug = <<>>
    /\ d_retries = 0
    /\ d_attempt = 0
    /\ d_ret = NoneV
    /\ d_calls = 0
    /\ d_rx = <<>>
    /\ d_val = NoneV
    /\ d_got = NoneV
    /\ d_last = <<>>
    /\ d_txns = 0

(***************************************************************************)
(* coordinator.py: VALIDATION_RANGES and _validate_value.                  *)
(***************************************************************************)
SENTINEL == 99900

\* float('nan'), which struct.unpack("<f") can produce: every comparison with
\* it is false
NaNV == <<"nan", "nan">>
IsNaN(v) == Len(v) = 2

\* VALIDATION_RANGES in dict order: keyword, (min, max) in hundredths
VALIDATION_RANGES ==
    << [keyword |-> <<"t", "e", "m", "p">>, min |-> -2000, max |-> 10000],
       [keyword |-> <<"p", "o", "w", "e", "r">>, min |-> 0, max |-> 10000],
       [keyword |-> <<"f", "a", "n">>, min |-> 0, max |-> 10000],
       [keyword |-> <<"v", "a", "l", "v", "e", "p", "o", "s", "i", "t", "i", "o", "n">>,
        min |-> 0, max |-> 10000],
       [keyword |-> <<"p", "r", "e", "s", "s", "u", "r", "e">>, min |-> 0, max |-> 400],
       [keyword |-> <<"l", "a", "m", "b", "d", "a">>, min |-> 0, max |-> 2500] >>

\* `keyword in slug`
IsSubstring(k, s) ==
    \E i \in 0..(Len(s) - Len(k)) : SubSeq(s, i + 1, i + Len(k)) = k

Abs(x) == IF x < 0 THEN 0 - x ELSE x

\* a generic check in which the last keyword found in the slug decides
GenericCheckLast(slug, raw_val) ==
    LET hits == {i \in 1..Len(VALIDATION_RANGES) :
                    IsSubstring(VALIDATION_RANGES[i].keyword, slug)}
    IN IF hits = {} THEN TRUE
       ELSE LET last == CHOOSE i \in hits : \A j \in hits : i >= j
                r == VALIDATION_RANGES[last]
            IN ~IsNaN(raw_val) /\ r.min <= raw_val[1] /\ raw_val[1] <= r.max

\* step C: the first keyword found in the slug decides
GenericCheck(slug, raw_val) ==
    LET hits == {i \in 1..Len(VALIDATION_RANGES) :
                    IsSubstring(VALIDATION_RANGES[i].keyword, slug)}
    IN IF hits = {} THEN TRUE
       ELSE LET first == CHOOSE i \in hits : \A j \in hits : i <= j
                r == VALIDATION_RANGES[first]
            IN ~IsNaN(raw_val) /\ r.min <= raw_val[1] /\ raw_val[1] <= r.max

\* step B: the bounds declared in the parameter definition
DeclaredCheck(json_min, json_max, json_max_delta, raw_val, cached_val) ==
    /\ ~(json_min # NoneV /\ ~IsNaN(raw_val) /\ raw_val[1] < json_min[1])
    /\ ~(json_max # NoneV /\ ~IsNaN(raw_val) /\ raw_val[1] > json_max[1])
    /\ ~(json_max_delta # NoneV /\ cached_val # NoneV
         /\ ~IsNaN(raw_val) /\ ~IsNaN(cached_val)
         /\ Abs(cached_val[1] - raw_val[1]) > json_max_delta[1])

\* a validator that looks at the bounds before the sentinel
ValidateBoundsFirst(slug, raw_val, cached_val) ==
    LET p == IF slug \in DOMAIN params_map THEN params_map[slug]
             ELSE Param(0, "BYTE", 0, NoneV, NoneV, NoneV)
    IN IF raw_val = NoneV THEN [valid |-> FALSE, val |-> NoneV]
       ELSE IF p.min # NoneV \/ p.max # NoneV
            THEN IF DeclaredCheck(p.min, p.max, p.max_delta, raw_val, cached_val)
                 THEN [valid |-> TRUE, val |-> raw_val]
                 ELSE [valid |-> FALSE, val |-> NoneV]
       ELSE IF GenericCheck(slug, raw_val) THEN [valid |-> TRUE, val |-> raw_val]
       ELSE [valid |-> FALSE, val |-> NoneV]

\* a validator that asks the generic keyword ranges first
ValidateGenericFirst(slug, raw_val, cached_val) ==
    IF raw_val = NoneV \/ ~GenericCheck(slug, raw_val)
    THEN [valid |-> FALSE, val |-> NoneV]
    ELSE [valid |-> TRUE, val |-> raw_val]

\* _validate_value for None or numeric (int, float) raw_val: the tuple
\* (is_valid, value)
_validate_value(slug, raw_val, cached_val) ==
    LET rejected == [valid |-> FALSE, val |-> NoneV]
        accepted == [valid |-> TRUE, val |-> raw_val]
        json_min == IF slug \in DOMAIN params_map THEN params_map[slug].min ELSE NoneV
        json_max == IF slug \in DOMAIN params_map THEN params_map[slug].max ELSE NoneV
        json_max_delta ==
            IF slug \in DOMAIN params_map THEN params_map[slug].max_delta ELSE NoneV
    IN IF raw_val = NoneV THEN rejected
       ELSE IF ~IsNaN(raw_val) /\ raw_val[1] = SENTINEL THEN rejected
       ELSE IF json_min # NoneV \/ json_max # NoneV
            THEN IF DeclaredCheck(json_min, json_max, json_max_delta, raw_val, cached_val)
                 THEN accepted ELSE rejected
       ELSE IF GenericCheck(slug, raw_val) THEN accepted ELSE rejected

ValSlugs == DOMAIN params_map \cup {S_GHOST}
ValNumbers == {-2500, 150, 550, 2500, 6000, 15000, 99900, 100000}
ValRaws == {NoneV, NaNV} \cup {Some(n) : n \in ValNumbers}
ValCached == {NoneV, NaNV, Some(2000), Some(6000)}

VInit ==
    /\ v_slug \in ValSlugs
    /\ v_raw \in ValRaws
    /\ v_cached \in ValCached
    /\ v_out = NoneV

\* _validate_value(slug, raw_val, cached_val) is called
Validate ==
    /\ v_out = NoneV
    /\ v_out' = Some(_validate_value(v_slug, v_raw, v_cached))
    /\ UNCHANGED <<v_slug, v_raw, v_cached>>
    /\ UNCHANGED notV

VNext == Validate

\* the validator left out of a specification
VOff ==
    /\ v_slug = <<>>
    /\ v_raw = NoneV
    /\ v_cached = NoneV
    /\ v_out = NoneV

(***************************************************************************)
(* plum_device.py: _encode and set_value, as the coordinator sees them.    *)
(***************************************************************************)
\* Python's int(n / d) for d > 0: towards zero
Trunc(n, d) == IF n >= 0 THEN n \div d ELSE 0 - ((0 - n) \div d)

\* struct.pack("<i", n): two's complement, little-endian
LE32(n) ==
    <<n % 256, (n \div 256) % 256, (n \div 65536) % 256, (n \div 16777216) % 256>>

\* the binary exponent of a / 100, for 1 <= a < 100 * 2^17
FloatExp(a) ==
    CHOOSE e \in -7..16 :
        IF e >= 0 THEN 100 * (2 ^ e) <= a /\ a < 200 * (2 ^ e)
        ELSE 100 <= a * (2 ^ (0 - e)) /\ a * (2 ^ (0 - e)) < 200

\* struct.pack("<f", value) for value in hundredths: the nearest single
\* precision number, ties to even
FloatBytes(value) ==
    LET a == IF value < 0 THEN 0 - value ELSE value
        sign == IF value < 0 THEN 1 ELSE 0
        e0 == FloatExp(a)
        m0 == RoundHalfEven(a * (2 ^ (23 - e0)), 100)
        e == IF m0 = 16777216 THEN e0 + 1 ELSE e0
        mant == IF m0 = 16777216 THEN 0 ELSE m0 - 8388608
        biased == e + 127
    IN IF a = 0 THEN <<0, 0, 0, 0>>
       ELSE <<mant % 256, (mant \div 256) % 256,
              128 * (biased % 2) + mant \div 65536,
              128 * sign + biased \div 2>>

\* PlumDevice._encode for a number (in hundredths): the packed bytes, or <<>>
\* (None) when struct.pack refuses the number or the type has no branch
_encode(value, param_def) ==
    LET ptype == param_def.type
        exp == param_def.exponent
        raw == IF exp = 0 THEN Trunc(value, 100)
               ELSE IF exp + 2 >= 0 THEN RoundHalfEven(value, 10 ^ (exp + 2))
               ELSE value * (10 ^ (0 - exp - 2))
    IN IF ptype = "FLOAT" THEN Some(FloatBytes(value))
       ELSE IF ptype \in {"BYTE", "SHORT_INT", "BOOL"}
          THEN IF 0 <= raw /\ raw <= 255 THEN Some(<<raw>>) ELSE NoneV
       ELSE IF ptype \in {"INT", "WORD"}
          THEN IF -32768 <= raw /\ raw <= 32767
                  THEN Some(LE16(raw % 65536)) ELSE NoneV
       ELSE IF ptype \in {"DWORD", "LONG_INT"} THEN Some(LE32(raw))
       ELSE NoneV

(***************************************************************************)
(* The value codec on its own: _encode followed by _decode, and _decode of  *)
(* bytes as they come from the device.                                     *)
(***************************************************************************)
\* the types of the parameter map; "STRING" has no branch in the codec
KTypes == {"BYTE", "SHORT_INT", "BOOL", "INT", "WORD", "DWORD", "LONG_INT",
           "FLOAT", "STRING"}
KExponents == -2..2
\* values in hundredths: -128, -1, 0, 0.01, 1, 20, 20.55, 200, 255, 40000
KValues == {-12800, -100, 0, 1, 100, 2000, 2055, 20000, 25500, 4000000}
\* device bytes: 200 as 16 and as 32 bits, one byte, none, three bytes, 40000
\* as 16 bits; and 10.0 as a single precision number, sent for parameters of
\* the float type
KRawBytes == {<<200, 0>>, <<200, 0, 0, 0>>, <<200>>, <<>>, <<200, 0, 0>>, <<64, 156>>}
KFloatBytes == {<<0, 0, 32, 65>>}

KInit ==
    /\ k_def \in [type : KTypes, exponent : KExponents]
    /\ k_v \in KValues
    /\ k_bytes = NoneV
    /\ k_out = NoneV
    /\ k_pc = "idle"

\* _encode(value, param_def)
Encode ==
    /\ k_pc = "idle"
    /\ k_bytes' = _encode(k_v, k_def)
    /\ k_pc' = "encoded"
    /\ UNCHANGED <<k_def, k_v, k_out>>
    /\ UNCHANGED notK

\* _decode of the bytes _encode returned
DecodeBack ==
    /\ k_pc = "encoded"
    /\ k_bytes # NoneV
    /\ k_out' = _decode(k_bytes[1], k_def)
    /\ k_pc' = "decoded"
    /\ UNCHANGED <<k_def, k_v, k_bytes>>
    /\ UNCHANGED notK

\* _decode of bytes received from the device
DecodeRaw ==
    /\ k_pc = "idle"
    /\ \E data \in KRawBytes \cup (IF k_def.type = "FLOAT" THEN KFloatBytes ELSE {}) :
         /\ k_bytes' = Some(data)
         /\ k_out' = _decode(data, k_def)
    /\ k_pc' = "raw"
    /\ UNCHANGED <<k_def, k_v>>
    /\ UNCHANGED notK

\* _sync_get_value of the plum_ecomax driver on an answer whose payload
\* carries `data` after the seven bytes the driver skips: one read attempt
SyncRead ==
    /\ k_pc = "idle"
    /\ \E data \in KRawBytes \cup (IF k_def.type = "FLOAT" THEN KFloatBytes ELSE {}) :
         /\ k_bytes' = Some(data)
         /\ k_out' = SyncGetValuePlum(Some(RespPayload(0, 5, data)), k_def)
    /\ k_pc' = "read"
    /\ UNCHANGED <<k_def, k_v>>
    /\ UNCHANGED notK

KNext == Encode \/ DecodeBack \/ DecodeRaw \/ SyncRead

\* the codec left out of a specification
KOff ==
    /\ k_def = NoneV
    /\ k_v = 0
    /\ k_bytes = NoneV
    /\ k_out = NoneV
    /\ k_pc = "off"

\* PlumDevice.set_value: False without any send for an unknown slug or a value
\* that cannot be encoded; otherwise whatever the three attempts give
SetValueOutcomes(slug, value) ==
    IF slug \notin DOMAIN params_map THEN {FALSE}
    ELSE IF _encode(value, params_map[slug]) = NoneV THEN {FALSE}
    ELSE {TRUE, FALSE}

(***************************************************************************)
(* coordinator.py: PlumDataUpdateCoordinator (plum_ecomax).                *)
(***************************************************************************)
DEFAULT_TTL == 300
REPEAT_SENDS == 5

\* seconds: the clock at start (beyond the TTL, as time.time() is), the
\* advance of one clock step, and the last instant explored
StartTime == 300
TickStep == 150
MaxTime == 600
\* calls of async_set_value explored: next to the refresh cycle, and with the
\* refresh cycle at rest
MaxWrites == 1
MaxTaskWrites == 2

\* slugs the cache may hold, and the discovery targets of const.py in order
CSlugs == {S_TEMPSET, S_TEMP, S_GHOST}
CTargets == <<S_TEMPSET, S_GHOST, S_TEMP, S_TEMPSET>>
\* what entities write: a known and an unknown slug, two encodable values and
\* one that does not fit a 16-bit word
WriteSlugs == {S_TEMPSET, S_GHOST}
WriteValues == {4500, 5000, 4000000}
\* what device.get_value may return
GetOutcomes == {NoneV, Some(2500), Some(6000), Some(SENTINEL)}

NoData == [s \in CSlugs |-> NoneV]
NoGhost == [startfresh |-> {}, examined |-> {}, hits |-> NoData,
            loopfetch |-> {}, discfetch |-> {}, scan |-> FALSE,
            discok |-> {}, discbad |-> {}, scanned |-> FALSE,
            complete |-> FALSE]
NoEvent == [kind |-> "none", slug |-> <<>>, value |-> NoneV, ret |-> NoneV,
            pre_cache |-> NoneV, pre_ts |-> 0, snap |-> NoneV,
            at |-> 0, locked |-> TRUE]

\* a cache that serves only what is older than the TTL
IsStale(now, last_update, ttl) == (now - last_update) >= ttl

\* is_fresh = (now - last_update) < self.ttl
IsFresh(now, last_update, ttl) == (now - last_update) < ttl

\* a write that leaves the cache to the device's confirmation
DeferredCache(cache, slug, value) == cache

\* the optimistic step of async_set_value: self._cache[slug] = value
OptimisticCache(cache, slug, value) == [cache EXCEPT ![slug] = Some(value)]

\* a write that reports whether the slug is known
WriteAccepted(slug, value) == slug \in DOMAIN params_map

\* async_set_value: return True
AsyncSetValueResult(slug, value) == TRUE

\* a loop that stops at the first confirmed send
WriteLoopDoneOnSuccess(sent, ok) == sent = REPEAT_SENDS \/ ok

\* _perform_repeated_write: the loop `for i in range(1, 6)` is over after the
\* send numbered `sent`, whatever set_value returned
WriteLoopDone(sent, ok) == sent = REPEAT_SENDS

\* a rejected branch that publishes nothing
DropOnReject(data, slug, cached_val) == data

\* the rejected branch: data[slug] = cached_val if cached_val is not None
HoldLastGood(data, slug, cached_val) ==
    IF cached_val # NoneV THEN [data EXCEPT ![slug] = cached_val] ELSE data

\* an error branch that publishes nothing
NoFallbackOnError(data, cache, slug) == data

\* the `except Exception` branch: data[slug] = self._cache[slug] if present
FallbackOnError(data, cache, slug) ==
    IF cache[slug] # NoneV THEN [data EXCEPT ![slug] = cache[slug]] ELSE data

\* a scan that keeps every value it obtained
RetainedAny(val) == val # NoneV

\* the scan's filter: val is not None and val != 999.0
Retained(val) == val # NoneV /\ val # Some(SENTINEL)

\* list(set(valid_slugs)): the slugs in any order
ListOfSet(S) == {q \in SeqsUpTo(S, Cardinality(S)) :
                    Len(q) = Cardinality(S) /\ {q[i] : i \in 1..Len(q)} = S}

\* the loop `for slug in self.available_slugs` from position idx up to the
\* next await of get_value, or to `return data`
RECURSIVE RunLoop(_, _, _, _, _, _, _)
RunLoop(iter, idx, now, cache, ts, build, g) ==
    IF idx > Len(iter)
    THEN [pc |-> "idle", idx |-> 0, snap |-> NoneV, build |-> build,
          g |-> [g EXCEPT !.complete = TRUE]]
    ELSE LET slug == iter[idx]
             last_update == ts[slug]
             is_fresh == IsFresh(now, last_update, DEFAULT_TTL)
             cached_val == cache[slug]
             seen == [g EXCEPT !.examined = @ \cup {slug}]
         IN IF is_fresh /\ cached_val # NoneV
            THEN RunLoop(iter, idx + 1, now, cache, ts,
                         [build EXCEPT ![slug] = cached_val],
                         [seen EXCEPT !.hits[slug] = cache[slug]])
            ELSE [pc |-> "loop", idx |-> idx, snap |-> cached_val, build |-> build,
                  g |-> [seen EXCEPT !.loopfetch = @ \cup {slug}]]

\* the event record left by a step of the coordinator; locked: the step
\* touched self._cache and self._timestamps only inside `async with
\* self._cache_lock` (the `except Exception` branch reads the cache outside)
Event(kind, slug, value, ret) ==
    [kind |-> kind, slug |-> slug, value |-> value, ret |-> ret,
     pre_cache |-> c_cache[slug], pre_ts |-> c_ts[slug], snap |-> c_snap,
     at |-> c_clock, locked |-> kind # "raise"]

\* the loop goes on to its next await, or _async_update_data returns `data`
\* and the base class stores it as coordinator.data
Continue(r) ==
    /\ c_pc' = r.pc
    /\ c_idx' = r.idx
    /\ c_snap' = r.snap
    /\ c_build' = r.build
    /\ c_ghost' = r.g
    /\ IF r.pc = "idle"
       THEN c_data' = r.build /\ c_alias' = FALSE /\ c_setup' = TRUE
       ELSE UNCHANGED <<c_data, c_alias, c_setup>>

CInit ==
    /\ c_clock = StartTime
    /\ c_setup = FALSE
    /\ c_quota = MaxWrites
    /\ c_available = <<>>
    /\ c_cache = NoData
    /\ c_ts = [s \in CSlugs |-> 0]
    /\ c_pc = "idle"
    /\ c_now = 0
    /\ c_targets = <<>>
    /\ c_valid = {}
    /\ c_iter = <<>>
    /\ c_idx = 0
    /\ c_snap = NoneV
    /\ c_build = NoData
    /\ c_data = NoData
    /\ c_alias = FALSE
    /\ c_tasks = <<>>
    /\ c_ghost = NoGhost
    /\ c_last = [NoEvent EXCEPT !.at = StartTime]

\* _async_update_data is called: up to the first await
RefreshStart ==
    /\ c_pc = "idle"
    /\ c_now' = c_clock
    /\ LET g0 == [NoGhost EXCEPT !.startfresh =
                     {s \in CSlugs : c_cache[s] # NoneV
                                     /\ c_clock - c_ts[s] < DEFAULT_TTL}]
           targets == SelectSeq(CTargets, LAMBDA s : s \in DOMAIN params_map)
       IN IF c_available = <<>> /\ targets # <<>>
          THEN /\ c_pc' = "disc"
               /\ c_targets' = targets
               /\ c_valid' = {}
               /\ c_iter' = <<>>
               /\ c_idx' = 0
               /\ c_snap' = NoneV
               /\ c_build' = NoData
               /\ c_ghost' = [g0 EXCEPT !.discfetch = {targets[1]}, !.scan = TRUE]
               /\ UNCHANGED <<c_data, c_alias, c_setup>>
          ELSE /\ c_iter' = c_available
               /\ Continue(RunLoop(c_available, 1, c_clock, c_cache, c_ts, NoData, g0))
               /\ UNCHANGED <<c_targets, c_valid>>
    /\ c_last' = [NoEvent EXCEPT !.kind = "refresh", !.at = c_clock]
    /\ UNCHANGED <<c_clock, c_quota, c_available, c_cache, c_ts, c_tasks>>
    /\ UNCHANGED notC

\* _detect_available_parameters after get_value(slug, retries=5) returned val
DiscStep(val) ==
         LET valid_slugs == IF Retained(val)
                            THEN c_valid \cup {Head(c_targets)} ELSE c_valid
             rest == Tail(c_targets)
             g1 == IF val = Some(SENTINEL)
                   THEN [c_ghost EXCEPT !.discbad = @ \cup {Head(c_targets)}]
                   ELSE IF val # NoneV
                   THEN [c_ghost EXCEPT !.discok = @ \cup {Head(c_targets)}]
                   ELSE c_ghost
         IN IF rest # <<>>
            THEN /\ c_targets' = rest
                 /\ c_valid' = valid_slugs
                 /\ c_ghost' = [g1 EXCEPT !.discfetch = @ \cup {rest[1]}]
                 /\ UNCHANGED <<c_pc, c_available, c_iter, c_idx, c_snap, c_build,
                                c_data, c_alias, c_setup>>
            ELSE \E lst \in ListOfSet(valid_slugs) :
                 /\ c_available' = lst
                 /\ c_iter' = lst
                 /\ c_targets' = <<>>
                 /\ c_valid' = valid_slugs
                 /\ Continue(RunLoop(lst, 1, c_now, c_cache, c_ts, c_build,
                                     [g1 EXCEPT !.scanned = TRUE]))

\* _detect_available_parameters: get_value(slug, retries=5) returns
DiscReturn ==
    /\ c_pc = "disc"
    /\ \E val \in GetOutcomes : DiscStep(val)
    /\ UNCHANGED <<c_clock, c_quota, c_now, c_cache, c_ts, c_tasks, c_last>>
    /\ UNCHANGED notC

\* an exception leaves _detect_available_parameters: the refresh fails
DiscRaise ==
    /\ c_pc = "disc"
    /\ c_pc' = "idle"
    /\ c_targets' = <<>>
    /\ c_valid' = {}
    /\ UNCHANGED <<c_clock, c_setup, c_quota, c_available, c_cache, c_ts, c_now,
                   c_iter, c_idx, c_snap, c_build, c_data, c_alias, c_tasks, c_ghost,
                   c_last>>
    /\ UNCHANGED notC

\* the loop after get_value(slug, retries=2) returned raw_val: validation,
\* then the accepted or the rejected branch, then the loop goes on
FetchStep(raw_val) ==
         LET slug == c_iter[c_idx]
             v == _validate_value(slug, raw_val, c_snap)
             cache1 == IF v.valid THEN [c_cache EXCEPT ![slug] = v.val] ELSE c_cache
             ts1 == IF v.valid THEN [c_ts EXCEPT ![slug] = c_clock] ELSE c_ts
             build1 == IF v.valid THEN [c_build EXCEPT ![slug] = v.val]
                       ELSE HoldLastGood(c_build, slug, c_snap)
         IN /\ c_cache' = cache1
            /\ c_ts' = ts1
            /\ c_last' = Event(IF v.valid THEN "accept" ELSE "reject", slug,
                               raw_val, NoneV)
            /\ Continue(RunLoop(c_iter, c_idx + 1, c_now, cache1, ts1, build1, c_ghost))

\* the loop's get_value(slug, retries=2) returns
FetchReturn ==
    /\ c_pc = "loop"
    /\ \E raw_val \in GetOutcomes : FetchStep(raw_val)
    /\ UNCHANGED <<c_clock, c_quota, c_now, c_available, c_iter, c_targets, c_valid,
                   c_tasks>>
    /\ UNCHANGED notC

\* the loop's get_value or the validation raises: the `except Exception` branch
FetchRaise ==
    /\ c_pc = "loop"
    /\ LET slug == c_iter[c_idx]
           build1 == FallbackOnError(c_build, c_cache, slug)
       IN /\ c_last' = Event("raise", slug, NoneV, NoneV)
          /\ Continue(RunLoop(c_iter, c_idx + 1, c_now, c_cache, c_ts, build1, c_ghost))
    /\ UNCHANGED <<c_clock, c_quota, c_now, c_available, c_cache, c_ts, c_iter,
                   c_targets, c_valid, c_tasks>>
    /\ UNCHANGED notC

\* async_set_value(slug, value), whole: it has no await that yields, as
\* nothing holds _cache_lock across an await
AsyncSetValue ==
    /\ c_setup
    /\ c_quota > 0
    /\ c_quota' = c_quota - 1
    /\ \E slug \in WriteSlugs, value \in WriteValues :
         /\ c_cache' = OptimisticCache(c_cache, slug, value)
         /\ c_ts' = [c_ts EXCEPT ![slug] = c_clock]
         /\ c_alias' = TRUE
         /\ c_tasks' = Append(c_tasks,
                [slug |-> slug, value |-> value, sent |-> 0, oks |-> 0,
                 done |-> FALSE, overlap |-> FALSE,
                 ret |-> AsyncSetValueResult(slug, value)])
         /\ c_last' = Event("set", slug, Some(value),
                            Some(AsyncSetValueResult(slug, value)))
    /\ UNCHANGED <<c_clock, c_setup, c_available, c_pc, c_now, c_targets, c_valid,
                   c_iter, c_idx, c_snap, c_build, c_data, c_ghost>>
    /\ UNCHANGED notC

\* _perform_repeated_write: one `await self.device.set_value(slug, value)`
TaskSend ==
    /\ \E i \in 1..Len(c_tasks) :
         /\ ~c_tasks[i].done
         /\ \E ok \in SetValueOutcomes(c_tasks[i].slug, c_tasks[i].value) :
              /\ c_tasks' = [c_tasks EXCEPT ![i] =
                     [@ EXCEPT !.sent = @ + 1,
                               !.oks = IF ok THEN @ + 1 ELSE @,
                               !.overlap = @ \/ \E j \in (i + 1)..Len(c_tasks) :
                                                  c_tasks[j].slug = c_tasks[i].slug,
                               !.done = WriteLoopDone(c_tasks[i].sent + 1, ok)]]
              /\ c_last' = Event("send", c_tasks[i].slug, Some(c_tasks[i].value),
                                 Some(ok))
    /\ UNCHANGED <<c_clock, c_setup, c_quota, c_available, c_cache, c_ts, c_pc,
                   c_now, c_targets, c_valid, c_iter, c_idx, c_snap, c_build, c_data,
                   c_alias, c_ghost>>
    /\ UNCHANGED notC

\* time passes
Tick ==
    /\ c_clock < MaxTime
    /\ c_clock' = c_clock + TickStep
    /\ UNCHANGED <<c_setup, c_quota, c_available, c_cache, c_ts, c_pc, c_now, c_targets,
                   c_valid, c_iter, c_idx, c_snap, c_build, c_data, c_alias,
                   c_tasks, c_ghost, c_last>>
    /\ UNCHANGED notC

CNext ==
    \/ RefreshStart
    \/ DiscReturn
    \/ DiscRaise
    \/ FetchReturn
    \/ FetchRaise
    \/ AsyncSetValue
    \/ TaskSend
    \/ Tick

\* the write path alone: the coordinator as its first refresh leaves it when
\* the scan found no parameter, with the refresh cycle at rest
WInit ==
    /\ c_clock = StartTime
    /\ c_setup = TRUE
    /\ c_quota = MaxTaskWrites
    /\ c_available = <<>>
    /\ c_cache = NoData
    /\ c_ts = [s \in CSlugs |-> 0]
    /\ c_pc = "idle"
    /\ c_now = StartTime
    /\ c_targets = <<>>
    /\ c_valid = {}
    /\ c_iter = <<>>
    /\ c_idx = 0
    /\ c_snap = NoneV
    /\ c_build = NoData
    /\ c_data = NoData
    /\ c_alias = FALSE
    /\ c_tasks = <<>>
    /\ c_ghost = [NoGhost EXCEPT !.discfetch = {S_TEMPSET, S_TEMP},
                                 !.scan = TRUE, !.scanned = TRUE,
                                 !.complete = TRUE]
    /\ c_last = [NoEvent EXCEPT !.kind = "refresh", !.at = StartTime]

\* coordinator.data: the dict returned by the last refresh, or the cache
\* itself after async_set_updated_data(self._cache)
CoordinatorData == IF c_alias THEN c_cache ELSE c_data

\* climate.py, async_set_temperature / async_set_hvac_mode: the entity sends
\* through the driver and, on True, writes coordinator.data[slug] itself; on
\* False async_set_temperature asks for a refresh, which changes nothing here.
\* coordinator.data is self._cache after async_set_updated_data(self._cache):
\* the entity then writes the cache, holding no lock and setting no timestamp
ClimateSet ==
    /\ c_setup
    /\ c_quota > 0
    /\ c_quota' = c_quota - 1
    /\ \E slug \in WriteSlugs, value \in WriteValues :
         \E ok \in SetValueOutcomes(slug, value) :
            /\ IF ok /\ c_alias
               THEN c_cache' = [c_cache EXCEPT ![slug] = Some(value)] /\ UNCHANGED c_data
               ELSE IF ok
               THEN c_data' = [c_data EXCEPT ![slug] = Some(value)] /\ UNCHANGED c_cache
               ELSE UNCHANGED <<c_cache, c_data>>
            /\ c_last' = [Event("climate", slug, Some(value), Some(ok))
                             EXCEPT !.locked = ~(ok /\ c_alias)]
    /\ UNCHANGED <<c_clock, c_setup, c_available, c_ts, c_pc, c_now, c_targets,
                   c_valid, c_iter, c_idx, c_snap, c_build, c_alias, c_tasks, c_ghost>>
    /\ UNCHANGED notC

\* an entity property (sensor.py native_value, climate.py target_temperature,
\* ...): self.coordinator.data.get(slug), holding no lock
EntityRead ==
    /\ c_setup
    /\ \E slug \in CSlugs :
         c_last' = [Event("read", slug, NoneV, CoordinatorData[slug])
                      EXCEPT !.locked = ~c_alias]
    /\ UNCHANGED <<c_clock, c_setup, c_quota, c_available, c_cache, c_ts, c_pc, c_now,
                   c_targets, c_valid, c_iter, c_idx, c_snap, c_build, c_data, c_alias,
                   c_tasks, c_ghost>>
    /\ UNCHANGED notC

WNext == AsyncSetValue \/ TaskSend \/ Tick \/ ClimateSet \/ EntityRead

\* The coordinator on top of the driver's own cache. get_value of the
\* plum_ecomax driver either decodes a value in one of its attempts, stores it
\* in _data_cache and returns it, or returns _data_cache.get(slug) when every
\* attempt failed
DriverGetValue(slug) ==
    {[val |-> v, dev |-> [s_dev EXCEPT ![slug] = v], phys |-> TRUE] :
        v \in GetOutcomes \ {NoneV}}
    \cup {[val |-> s_dev[slug], dev |-> s_dev, phys |-> FALSE]}

\* the coordinator and a new driver, no write pending
SInit ==
    /\ c_clock = StartTime
    /\ c_setup = FALSE
    /\ c_quota = 0
    /\ c_available = <<>>
    /\ c_cache = NoData
    /\ c_ts = [s \in CSlugs |-> 0]
    /\ c_pc = "idle"
    /\ c_now = 0
    /\ c_targets = <<>>
    /\ c_valid = {}
    /\ c_iter = <<>>
    /\ c_idx = 0
    /\ c_snap = NoneV
    /\ c_build = NoData
    /\ c_data = NoData
    /\ c_alias = FALSE
    /\ c_tasks = <<>>
    /\ c_ghost = NoGhost
    /\ c_last = [NoEvent EXCEPT !.at = StartTime]
    /\ s_dev = NoData
    /\ s_phys = NoneV

\* _detect_available_parameters: the driver's get_value(slug, retries=5) returns
DriverDiscReturn ==
    /\ c_pc = "disc"
    /\ \E r \in DriverGetValue(Head(c_targets)) :
         /\ DiscStep(r.val)
         /\ s_dev' = r.dev
         /\ s_phys' = Some(r.phys)
    /\ UNCHANGED <<c_clock, c_quota, c_now, c_cache, c_ts, c_tasks, c_last>>
    /\ UNCHANGED notCS

\* the loop's get_value(slug, retries=2) returns from the driver
DriverFetchReturn ==
    /\ c_pc = "loop"
    /\ \E r \in DriverGetValue(c_iter[c_idx]) :
         /\ FetchStep(r.val)
         /\ s_dev' = r.dev
         /\ s_phys' = Some(r.phys)
    /\ UNCHANGED <<c_clock, c_quota, c_now, c_available, c_iter, c_targets, c_valid,
                   c_tasks>>
    /\ UNCHANGED notCS

SNext ==
    \/ RefreshStart
    \/ DriverDiscReturn
    \/ DiscRaise
    \/ DriverFetchReturn
    \/ FetchRaise
    \/ Tick

\* the driver's cache left out of a specification
SOff ==
    /\ s_dev = <<>>
    /\ s_phys = NoneV

\* the coordinator left out of a specification
COff ==
    /\ c_clock = 0
    /\ c_setup = FALSE
    /\ c_quota = 0
    /\ c_available = <<>>
    /\ c_cache = <<>>
    /\ c_ts = <<>>
    /\ c_pc = "off"
    /\ c_now = 0
    /\ c_targets = <<>>
    /\ c_valid = {}
    /\ c_iter = <<>>
    /\ c_idx = 0
    /\ c_snap = NoneV
    /\ c_build = <<>>
    /\ c_data = <<>>
    /\ c_alias = FALSE
    /\ c_tasks = <<>>
    /\ c_ghost = <<>>
    /\ c_last = <<>>

(***************************************************************************)
(* plum_device.py: get_value and set_value of the plum_ecomax driver as    *)
(* the event loop runs them: each attempt is a worker thread               *)
(* (asyncio.to_thread) that executes _sync_get_value or _sync_set_value.   *)
(* The refresh cycle calls get_value, a background write task set_value;   *)
(* nothing orders the two.                                                 *)
(***************************************************************************)
SESSION_START == 10
WRITE_ATTEMPTS == 3
\* calls each of the two sides makes
MaxThreadCalls == 1

Threads == {"get", "set"}

\* a loop that does not stop at the first response
SetValueGoesOnAfterSuccess(attempt, ok) == attempt < WRITE_ATTEMPTS

\* set_value goes round its loop again: the transaction gave no response and
\* it was not the last attempt
SetValueGoesOn(attempt, ok) == ~ok /\ attempt < WRITE_ATTEMPTS

IdleThread == [pc |-> "idle", tmp |-> 0, sent |-> NoneV, attempt |-> 0,
               retries |-> 0, txns |-> 0, okat |-> 0, ret |-> "none", calls |-> 0,
               slug |-> <<>>, value |-> 0]

\* a set_value that sends whatever _encode returned
SendableWhenKnown(slug, value) == slug \in DOMAIN params_map

\* set_value goes on to its first transaction: `if not param: return False`
\* and `if not encoded: return False` were both passed
SetValueSendable(slug, value) ==
    /\ slug \in DOMAIN params_map
    /\ _encode(value, params_map[slug]) # NoneV

\* the driver after n transactions made one after the other
XInit ==
    /\ \E n \in {0, SESSION_MODULUS - SESSION_START - 1} :
         /\ x_txns = n
         /\ x_session = (SESSION_START + n) % SESSION_MODULUS
    /\ x_th = [t \in Threads |-> IdleThread]
    /\ x_inflight = {}

\* get_value(slug, retries) is called for a known slug: first worker thread
XGetCall ==
    /\ x_th["get"].pc = "idle"
    /\ x_th["get"].calls < MaxThreadCalls
    /\ \E retries \in 1..MaxRetries :
         x_th' = [x_th EXCEPT !["get"] =
                     [IdleThread EXCEPT !.pc = "load", !.attempt = 1,
                                        !.retries = retries,
                                        !.calls = x_th["get"].calls + 1]]
    /\ UNCHANGED <<x_session, x_inflight, x_txns>>
    /\ UNCHANGED notX

\* set_value(slug, value) is called: False at once for an unknown slug or a
\* value that cannot be encoded, else the first worker thread
XSetCall ==
    /\ x_th["set"].pc = "idle"
    /\ x_th["set"].calls < MaxThreadCalls
    /\ \E slug \in WriteSlugs, value \in WriteValues :
         LET sendable == SetValueSendable(slug, value)
         IN x_th' = [x_th EXCEPT !["set"] =
                [IdleThread EXCEPT !.slug = slug, !.value = value,
                                   !.pc = IF sendable THEN "load" ELSE "idle",
                                   !.attempt = IF sendable THEN 1 ELSE 0,
                                   !.retries = WRITE_ATTEMPTS,
                                   !.ret = IF sendable THEN "none" ELSE "false",
                                   !.calls = x_th["set"].calls + 1]]
    /\ UNCHANGED <<x_session, x_inflight, x_txns>>
    /\ UNCHANGED notX

\* self.session_id = (self.session_id + 1) % 65000, first half: the worker
\* reads the attribute
WorkerLoad ==
    /\ \E t \in Threads :
         /\ x_th[t].pc = "load"
         /\ x_th' = [x_th EXCEPT ![t].pc = "store", ![t].tmp = x_session]
    /\ UNCHANGED <<x_session, x_inflight, x_txns>>
    /\ UNCHANGED notX

\* second half: the worker stores the incremented value; then _sync_get_value
\* packs the payload, _sync_set_value goes straight to the socket
WorkerStore ==
    /\ \E t \in Threads :
         /\ x_th[t].pc = "store"
         /\ x_session' = (x_th[t].tmp + 1) % SESSION_MODULUS
         /\ x_th' = [x_th EXCEPT ![t].pc = IF t = "get" THEN "pack" ELSE "connect"]
    /\ UNCHANGED <<x_inflight, x_txns>>
    /\ UNCHANGED notX

\* _sync_get_value: struct.pack("<HB BH", self.session_id, 1, 1, pid)
WorkerPack ==
    /\ x_th["get"].pc = "pack"
    /\ x_th' = [x_th EXCEPT !["get"].pc = "connect", !["get"].sent = Some(x_session)]
    /\ UNCHANGED <<x_session, x_inflight, x_txns>>
    /\ UNCHANGED notX

\* _socket_transaction: socket(), connect(), send()
WorkerConnect ==
    /\ \E t \in Threads :
         /\ x_th[t].pc = "connect"
         /\ x_th' = [x_th EXCEPT ![t].pc = "recv", ![t].txns = @ + 1]
         /\ x_inflight' = x_inflight \cup {t}
    /\ x_txns' = x_txns + 1
    /\ UNCHANGED x_session
    /\ UNCHANGED notX

\* _socket_transaction: a response, the 2 s deadline or a socket error (caught:
\* None), then close(); back in get_value / set_value the result is returned
\* or, after the sleep, the next attempt starts
WorkerRecv ==
    /\ \E t \in Threads, ok \in BOOLEAN :
         LET th == x_th[t]
             more == IF t = "set" THEN SetValueGoesOn(th.attempt, ok)
                     ELSE ~ok /\ th.attempt < th.retries
         IN /\ th.pc = "recv"
            /\ x_inflight' = x_inflight \ {t}
            /\ x_th' = [x_th EXCEPT ![t] =
                   [th EXCEPT !.pc = IF more THEN "load" ELSE "idle",
                              !.attempt = IF more THEN @ + 1 ELSE @,
                              !.okat = IF ok /\ @ = 0 THEN th.txns ELSE @,
                              !.ret = IF more THEN "none"
                                      ELSE IF t = "set"
                                           THEN (IF ok THEN "true" ELSE "false")
                                           ELSE (IF ok THEN "value" ELSE "fallback")]]
    /\ UNCHANGED <<x_session, x_txns>>
    /\ UNCHANGED notX

XNext ==
    \/ XGetCall
    \/ XSetCall
    \/ WorkerLoad
    \/ WorkerStore
    \/ WorkerPack
    \/ WorkerConnect
    \/ WorkerRecv

\* the worker threads left out of a specification
XOff ==
    /\ x_session = 0
    /\ x_th = <<>>
    /\ x_inflight = {}
    /\ x_txns = 0

(***************************************************************************)
(* sensor.py: PlumEcomaxSensor.native_value and available. Values of the   *)
(* published data: <<>> None, <<n>> a number (hundredths), NaNV, an        *)
(* infinity <<"inf", sign, "">>, a string <<"str", kind, n, 0>> that float() *)
(* parses as the number n, as NaN or as infinity, or that it refuses.      *)
(***************************************************************************)
InfV(sign) == <<"inf", sign, "">>
StrV(kind, n) == <<"str", kind, n, 0>>
\* native_value was not read since the value was published
Unread == <<"unread", "", "", "", "">>
IsInf(v) == Len(v) = 3
IsStr(v) == Len(v) = 4

\* float(val): <<>> stands for ValueError / TypeError
ToFloat(val) ==
    IF IsStr(val)
    THEN IF val[2] = "num" THEN Some(val[3])
         ELSE IF val[2] = "nan" THEN NaNV
         ELSE IF val[2] = "inf" THEN InfV("+")
         ELSE NoneV
    ELSE val

\* a native_value that filters NaN only
NativeValueNaNOnly(val, numeric) ==
    IF val = NoneV THEN NoneV
    ELSE IF numeric
    THEN LET f_val == ToFloat(val)
         IN IF f_val = NoneV \/ IsNaN(f_val) THEN NoneV ELSE f_val
    ELSE val

\* PlumEcomaxSensor.native_value
native_value(val, numeric) ==
    IF val = NoneV THEN NoneV
    ELSE IF numeric
    THEN LET f_val == ToFloat(val)
         IN IF f_val = NoneV \/ IsNaN(f_val) \/ IsInf(f_val) THEN NoneV ELSE f_val
    ELSE val

\* PlumEcomaxSensor.available; base is super().available
available(val, base) ==
    IF val = NoneV THEN FALSE
    ELSE IF IsNaN(val) THEN FALSE
    ELSE base

SensorValues ==
    {NoneV, NaNV, InfV("+"), InfV("-"), StrV("num", 4550), StrV("nan", 0),
     StrV("inf", 0), StrV("txt", 0)}
    \cup {Some(n) : n \in {-2500, 0, 1, 4550, 6000, SENTINEL}}

NInit ==
    /\ n_val \in SensorValues
    /\ n_numeric \in BOOLEAN
    /\ n_base \in BOOLEAN
    /\ n_native = Unread
    /\ n_avail = NoneV

\* Home Assistant reads the property native_value
ReadNativeValue ==
    /\ n_native' = native_value(n_val, n_numeric)
    /\ UNCHANGED <<n_val, n_numeric, n_base, n_avail>>
    /\ UNCHANGED notN

\* Home Assistant reads the property available
ReadAvailable ==
    /\ n_avail' = Some(available(n_val, n_base))
    /\ UNCHANGED <<n_val, n_numeric, n_base, n_native>>
    /\ UNCHANGED notN

\* the coordinator publishes another value for the slug
SensorUpdate ==
    /\ n_native # Unread
    /\ n_avail # NoneV
    /\ n_val' \in SensorValues \ {n_val}
    /\ n_native' = Unread
    /\ n_avail' = NoneV
    /\ UNCHANGED <<n_numeric, n_base>>
    /\ UNCHANGED notN

NNext == ReadNativeValue \/ ReadAvailable \/ SensorUpdate

\* the sensor left out of a specification
NOff ==
    /\ n_val = NoneV
    /\ n_numeric = FALSE
    /\ n_base = FALSE
    /\ n_native = NoneV
    /\ n_avail = NoneV

(***************************************************************************)
(* plum_device.py _build_frame and _crc16 next to plum_protocol.py to_bytes *)
(* and compute_crc16, and plum_transport.py read_frame on the built frame. *)
(***************************************************************************)
\* function codes: the two requests, the ends of the byte range, a start byte
BCmds == {0, CMD_WRITE_FORCE, CMD_READ_VAL, START_BYTE, 255}
\* payloads: up to two bytes out of the framing bytes and the ends of the byte
\* range, and the payload of a read request
BPayloads == SeqsUpTo({0, STOP_BYTE, START_BYTE, 255}, 2) \cup {ReadPayload(11, 5)}

BInit ==
    /\ b_cmd \in BCmds
    /\ b_payload \in BPayloads
    /\ b_frame = NoneV
    /\ b_ref = NoneV
    /\ b_crc = NoneV
    /\ b_parsed = NoneV

\* PlumDevice._build_frame(cmd, payload)
BuildFrame ==
    /\ b_frame = NoneV
    /\ b_frame' = Some(_build_frame(b_cmd, b_payload))
    /\ UNCHANGED <<b_cmd, b_payload, b_ref, b_crc, b_parsed>>
    /\ UNCHANGED notB

\* BoilerFrame(DEST_ID, SOURCE_ID, cmd, payload).to_bytes()
FrameToBytes ==
    /\ b_ref = NoneV
    /\ b_ref' = Some(to_bytes([dest |-> DEST_ID, src |-> SOURCE_ID,
                               func |-> b_cmd, data |-> b_payload]))
    /\ UNCHANGED <<b_cmd, b_payload, b_frame, b_crc, b_parsed>>
    /\ UNCHANGED notB

\* both checksums of the same bytes
BothCrc ==
    /\ b_crc = NoneV
    /\ b_crc' = Some(<<_crc16(b_payload), compute_crc16(b_payload)>>)
    /\ UNCHANGED <<b_cmd, b_payload, b_frame, b_ref, b_parsed>>
    /\ UNCHANGED notB

\* the built frame arrives whole at an empty reassembler
ParseBuilt ==
    /\ b_frame # NoneV
    /\ b_parsed = NoneV
    /\ b_parsed' = Some(ParseLoop(b_frame[1]))
    /\ UNCHANGED <<b_cmd, b_payload, b_frame, b_ref, b_crc>>
    /\ UNCHANGED notB

BNext == BuildFrame \/ FrameToBytes \/ BothCrc \/ ParseBuilt

\* the frame builder left out of a specification
BOff ==
    /\ b_cmd = 0
    /\ b_payload = <<>>
    /\ b_frame = NoneV
    /\ b_ref = NoneV
    /\ b_crc = NoneV
    /\ b_parsed = NoneV

(***************************************************************************)
(* coordinator.py: self._cache_lock. The coroutines of the event loop run  *)
(* from one suspension to the next: _async_update_data is suspended in     *)
(* device.get_value, a write task in device.set_value or in its sleep. An  *)
(* `async with self._cache_lock` whose lock is free is entered without a   *)
(* suspension; a coroutine that finds the lock taken would wait for it.    *)
(***************************************************************************)
\* writes explored next to the refresh cycle
MaxLockWrites == 1

LAvailable == <<S_TEMPSET, S_TEMP>>
LWrites == 1..MaxLockWrites

\* a lock that stays with the coroutine after the block
LockKept(who) == who

\* the end of an `async with self._cache_lock` block entered by who
LockAfterBlock(who) == "none"

\* the loop `for slug in self.available_slugs` from position idx on: each
\* snapshot is taken inside the lock; a fresh slug is a cache hit, the first
\* other one is fetched
RECURSIVE LockLoop(_, _, _)
LockLoop(idx, fresh, lock) ==
    IF idx > Len(LAvailable) THEN [pc |-> "idle", idx |-> 0, lock |-> lock]
    ELSE LET after == LockAfterBlock("refresh") IN
         IF LAvailable[idx] \in fresh /\ after = "none"
         THEN LockLoop(idx + 1, fresh, after)
         ELSE [pc |-> "get", idx |-> idx, lock |-> after]

IdleWrite == [pc |-> "idle", slug |-> <<>>, sent |-> 0]

LInit ==
    /\ l_lock = "none"
    /\ l_pc = "idle"
    /\ l_idx = 0
    /\ l_fresh = {}
    /\ l_w = [w \in LWrites |-> IdleWrite]

\* _async_update_data is called and runs to its first get_value or to its end
LockRefreshStart ==
    /\ l_pc = "idle"
    /\ l_lock = "none"
    /\ LET r == LockLoop(1, l_fresh, l_lock) IN
         /\ l_pc' = r.pc
         /\ l_idx' = r.idx
         /\ l_lock' = r.lock
    /\ UNCHANGED <<l_fresh, l_w>>
    /\ UNCHANGED notL

\* get_value returns a value that passes the validation: the cache and the
\* timestamp are set inside the lock, then the loop goes on
LockFetchAccept ==
    /\ l_pc = "get"
    /\ l_lock = "none"
    /\ LET fresh == l_fresh \cup {LAvailable[l_idx]}
           r == LockLoop(l_idx + 1, fresh, LockAfterBlock("refresh"))
       IN /\ l_fresh' = fresh
          /\ l_pc' = r.pc
          /\ l_idx' = r.idx
          /\ l_lock' = r.lock
    /\ UNCHANGED l_w
    /\ UNCHANGED notL

\* get_value returns a value that is rejected, or raises: the loop goes on
LockFetchOther ==
    /\ l_pc = "get"
    /\ (l_idx < Len(LAvailable) => l_lock = "none")
    /\ LET r == LockLoop(l_idx + 1, l_fresh, l_lock) IN
         /\ l_pc' = r.pc
         /\ l_idx' = r.idx
         /\ l_lock' = r.lock
    /\ UNCHANGED <<l_fresh, l_w>>
    /\ UNCHANGED notL

\* async_set_value: the optimistic update inside the lock, the task created
LockSetValue ==
    /\ l_lock = "none"
    /\ \E w \in LWrites, slug \in {S_TEMPSET, S_TEMP} :
         /\ l_w[w].pc = "idle"
         /\ l_w' = [l_w EXCEPT ![w] = [pc |-> "created", slug |-> slug, sent |-> 0]]
         /\ l_fresh' = l_fresh \cup {slug}
    /\ l_lock' = LockAfterBlock("write")
    /\ UNCHANGED <<l_pc, l_idx>>
    /\ UNCHANGED notL

\* _perform_repeated_write: the task starts, or its sleep is over, and calls
\* device.set_value
LockTaskSend ==
    /\ \E w \in LWrites :
         /\ l_w[w].pc \in {"created", "sleep"}
         /\ l_w' = [l_w EXCEPT ![w].pc = "send"]
    /\ UNCHANGED <<l_lock, l_pc, l_idx, l_fresh>>
    /\ UNCHANGED notL

\* device.set_value returns: the task sleeps, or is over after the fifth send
LockTaskSent ==
    /\ \E w \in LWrites :
         /\ l_w[w].pc = "send"
         /\ l_w' = [l_w EXCEPT ![w].sent = @ + 1,
                               ![w].pc = IF l_w[w].sent + 1 < REPEAT_SENDS
                                         THEN "sleep" ELSE "done"]
    /\ UNCHANGED <<l_lock, l_pc, l_idx, l_fresh>>
    /\ UNCHANGED notL

\* the TTL passes: nothing cached is fresh any more
LockExpire ==
    /\ l_fresh # {}
    /\ l_fresh' = {}
    /\ UNCHANGED <<l_lock, l_pc, l_idx, l_w>>
    /\ UNCHANGED notL

LNext ==
    \/ LockRefreshStart
    \/ LockFetchAccept
    \/ LockFetchOther
    \/ LockSetValue
    \/ LockTaskSend
    \/ LockTaskSent
    \/ LockExpire

\* the lock left out of a specification
LOff ==
    /\ l_lock = "off"
    /\ l_pc = "off"
    /\ l_idx = 0
    /\ l_fresh = {}
    /\ l_w = <<>>

(***************************************************************************)
(* Specifications.                                                         *)
(***************************************************************************)
InitTransport == TInit /\ DOff /\ VOff /\ COff /\ XOff /\ KOff /\ NOff /\ BOff /\ LOff /\ SOff
SpecTransport == InitTransport /\ [][TNext]_vars

InitDevice == DInit /\ TOff /\ VOff /\ COff /\ XOff /\ KOff /\ NOff /\ BOff /\ LOff /\ SOff
SpecDevice == InitDevice /\ [][DNext]_vars

InitValidate == VInit /\ TOff /\ DOff /\ COff /\ XOff /\ KOff /\ NOff /\ BOff /\ LOff /\ SOff
SpecValidate == InitValidate /\ [][VNext]_vars

InitCoord == CInit /\ TOff /\ DOff /\ VOff /\ XOff /\ KOff /\ NOff /\ BOff /\ LOff /\ SOff
SpecCoord == InitCoord /\ [][CNext]_vars

InitWrites == WInit /\ TOff /\ DOff /\ VOff /\ XOff /\ KOff /\ NOff /\ BOff /\ LOff /\ SOff
SpecWrites == InitWrites /\ [][WNext]_vars

InitThreads == XInit /\ TOff /\ DOff /\ VOff /\ COff /\ KOff /\ NOff /\ BOff /\ LOff /\ SOff
SpecThreads == InitThreads /\ [][XNext]_vars

\* an attempt of get_value ends: the step of GetValueAttempt, told by the
\* transaction it adds
AttemptEnds == d_pc = "attempt" /\ d_txns' = d_txns + 1

\* every attempt ends (socket deadline, then a finite sleep) and the event
\* loop runs the next one
SpecDeviceFair == InitDevice /\ [][DNext]_vars /\ WF_d_txns(AttemptEnds)

InitCodec == KInit /\ TOff /\ DOff /\ VOff /\ COff /\ XOff /\ NOff /\ BOff /\ LOff /\ SOff
SpecCodec == InitCodec /\ [][KNext]_vars

InitSensor == NInit /\ TOff /\ DOff /\ VOff /\ COff /\ XOff /\ KOff /\ BOff /\ LOff /\ SOff
SpecSensor == InitSensor /\ [][NNext]_vars

InitFrame == BInit /\ TOff /\ DOff /\ VOff /\ COff /\ XOff /\ KOff /\ NOff /\ LOff /\ SOff
SpecFrame == InitFrame /\ [][BNext]_vars

InitLock == LInit /\ TOff /\ DOff /\ VOff /\ COff /\ XOff /\ KOff /\ NOff /\ BOff /\ SOff
SpecLock == InitLock /\ [][LNext]_vars

InitStack == SInit /\ TOff /\ DOff /\ VOff /\ XOff /\ KOff /\ NOff /\ BOff /\ LOff
SpecStack == InitStack /\ [][SNext]_vars

\* C1: noise tolerance. Once noise + frame has been delivered whole, in any
\* chunking, read_frame has yielded exactly the one valid frame; and before
\* that it has yielded nothing else.
C1_NoiseTolerance ==
    t_scn = "noise" =>
        /\ t_yielded \in {<<>>, <<t_frame>>}
        /\ t_pos = Len(t_stream) => t_yielded = <<t_frame>>

\* C2: corruption rejection. With one byte of the CRC-covered span of a frame
\* changed, that frame is never yielded, and once the following valid frame
\* has been delivered whole it has been yielded (no hang on the candidate).
C2_CorruptionRejection ==
    t_scn = "corrupt" =>
        /\ t_yielded \in {<<>>, <<t_frame>>}
        /\ t_pos = Len(t_stream) => t_yielded = <<t_frame>>

\* a get_value call has returned
GetValueDone == d_pc = "idle" /\ d_calls > 0

C4_SessionVerified ==
    d_val # NoneV => RespSession(d_rx) \in {d_session, 0}

\* the validated slug declares min and/or max
HasDeclaredBounds ==
    /\ v_slug \in DOMAIN params_map
    /\ (params_map[v_slug].min # NoneV \/ params_map[v_slug].max # NoneV)

\* the validated number satisfies the declared bounds, and max_delta against
\* the previous value when both exist; NaN lies within no bounds
WithinDeclared ==
    LET p == params_map[v_slug] IN
    /\ ~IsNaN(v_raw)
    /\ p.min # NoneV => p.min[1] <= v_raw[1]
    /\ p.max # NoneV => v_raw[1] <= p.max[1]
    /\ (p.max_delta # NoneV /\ v_cached # NoneV /\ ~IsNaN(v_cached))
         => Abs(v_cached[1] - v_raw[1]) <= p.max_delta[1]

\* C10 (as claimed): with min and/or max declared, a numeric value is accepted
\* iff it lies within the declared bounds (and within max_delta of the
\* previous value); the generic keyword ranges play no part.
C10_DeclaredBoundsDecide ==
    (v_out # NoneV /\ HasDeclaredBounds /\ v_raw # NoneV) =>
        (v_out[1].valid <=> WithinDeclared)

\* C10 (amended): the same for every number other than the sentinel 999 and
\* NaN: the sentinel is rejected before the declared bounds are looked at, NaN
\* passes every comparison; an accepted value is returned unchanged.
C10_DeclaredBoundsDecideNonSentinel ==
    (/\ v_out # NoneV
     /\ HasDeclaredBounds
     /\ v_raw # NoneV
     /\ ~IsNaN(v_raw)
     /\ v_raw[1] # SENTINEL) =>
        /\ v_out[1].valid <=> WithinDeclared
        /\ v_out[1].val = IF WithinDeclared THEN v_raw ELSE NoneV

\* the test's case: min=10, max=50, value 60 that the "temp" range would accept
C10_Witness ==
    /\ v_out # NoneV
    /\ v_slug = S_TEMPSET
    /\ v_raw = Some(6000)
    /\ GenericCheck(v_slug, v_raw)
    /\ ~v_out[1].valid

\* slugs the loop has dealt with: all examined ones but the one being fetched
Settled ==
    IF c_pc = "loop" THEN c_ghost.examined \ {c_iter[c_idx]} ELSE c_ghost.examined

\* the refresh cycle that started last has returned its result
CycleReturned == c_pc = "idle" /\ c_ghost.complete

\* the slugs of the list the loop iterates that were cached with a non-empty
\* value younger than the TTL when the cycle started
FreshAvailable == c_ghost.startfresh \cap {c_iter[i] : i \in 1..Len(c_iter)}

\* C5 (as claimed): for an available slug cached with a non-empty value
\* younger than the TTL, the refresh cycle issues no get_value call and
\* returns the cached value.
C5_FreshNeverRead ==
    \A s \in FreshAvailable :
        /\ s \notin c_ghost.loopfetch \cup c_ghost.discfetch
        /\ CycleReturned => c_data[s] # NoneV

\* C5 (amended): for such a slug the loop over available_slugs issues no
\* get_value call and the cycle returns the value the cache held when the loop
\* examined the slug; get_value is called for it in that cycle only by the
\* discovery scan, which runs when the cycle starts with no available slug.
C5_FreshServedByLoop ==
    /\ \A s \in FreshAvailable :
        /\ s \notin c_ghost.loopfetch
        /\ s \in c_ghost.examined =>
              c_ghost.hits[s] # NoneV /\ c_build[s] = c_ghost.hits[s]
        /\ CycleReturned => c_data[s] # NoneV /\ c_data[s] = c_ghost.hits[s]
    /\ ~c_ghost.scan => c_ghost.discfetch = {}

\* a cycle has returned in which a slug written less than a TTL before was
\* served from the cache while another slug was fetched
C5_Witness ==
    /\ CycleReturned
    /\ ~c_ghost.scan
    /\ S_TEMPSET \in FreshAvailable
    /\ c_data[S_TEMPSET] = Some(4500)
    /\ c_ghost.loopfetch = {S_TEMP}

\* C6: optimistic write. When async_set_value returns, the slug's cache entry
\* is the written value and its timestamp the current time, and the task
\* created for the call has sent nothing yet.
C6_OptimisticBeforeSend ==
    c_last.kind = "set" =>
        LET t == c_tasks[Len(c_tasks)] IN
        /\ c_cache[c_last.slug] = c_last.value
        /\ c_ts[c_last.slug] = c_last.at
        /\ t.slug = c_last.slug
        /\ Some(t.value) = c_last.value
        /\ t.sent = 0

\* a write has just replaced a different cached value, nothing sent yet
C6_Witness ==
    /\ c_last.kind = "set"
    /\ c_last.pre_cache # NoneV
    /\ c_last.pre_cache # c_last.value
    /\ c_cache[c_last.slug] = c_last.value
    /\ c_tasks[Len(c_tasks)].sent = 0

\* C7: the background task of a write sends exactly 5 times: it never sends a
\* sixth time, and it ends only after the fifth send, whether or not any send
\* was confirmed and whether or not the slug was written again meanwhile.
C7_FiveSends ==
    \A i \in 1..Len(c_tasks) :
        /\ c_tasks[i].sent <= 5
        /\ c_tasks[i].oks <= c_tasks[i].sent
        /\ c_tasks[i].done <=> c_tasks[i].sent = 5

\* a task has ended after 5 sends, every one of them confirmed, some of them
\* made after a later write to the same slug
C7_Witness ==
    \E i \in 1..Len(c_tasks) :
        /\ c_tasks[i].done
        /\ c_tasks[i].sent = 5
        /\ c_tasks[i].oks = 5
        /\ c_tasks[i].overlap

\* C8: async_set_value returns True, also for an unknown slug, for a value
\* that cannot be encoded, and when every send of its task fails.
C8_AlwaysTrue ==
    /\ c_last.kind = "set" => c_last.ret = Some(TRUE)
    /\ \A i \in 1..Len(c_tasks) : c_tasks[i].ret = TRUE

\* the task of a write to an unknown slug has ended without one confirmed send
C8_Witness ==
    \E i \in 1..Len(c_tasks) :
        /\ c_tasks[i].slug \notin DOMAIN params_map
        /\ c_tasks[i].done
        /\ c_tasks[i].oks = 0
        /\ c_tasks[i].ret = TRUE

\* C9: hold-last-good. When the fetched value of a slug is rejected, the
\* slug's cache entry and timestamp stay as they were, and the cycle's result
\* holds the value cached when the slug was examined, or nothing for the slug
\* if there was none; that value is the cache entry itself unless a write to
\* the slug came in while the fetch was awaited.
C9_HoldLastGood ==
    c_last.kind = "reject" =>
        /\ c_cache[c_last.slug] = c_last.pre_cache
        /\ c_ts[c_last.slug] = c_last.pre_ts
        /\ c_build[c_last.slug] = c_last.snap
        /\ CycleReturned => c_data[c_last.slug] = c_last.snap
        /\ c_last.snap # c_last.pre_cache =>
              \E i \in 1..Len(c_tasks) :
                  /\ c_tasks[i].slug = c_last.slug
                  /\ Some(c_tasks[i].value) = c_last.pre_cache

\* a value out of the declared bounds was rejected and the stale cached value
\* of the slug published in its place
C9_Witness ==
    /\ c_last.kind = "reject"
    /\ c_last.value = Some(6000)
    /\ c_last.snap # NoneV
    /\ c_last.pre_cache = c_last.snap
    /\ c_build[c_last.slug] = c_last.snap
    /\ CycleReturned

\* C11: sentinel rejection. _validate_value returns (False, None) for None and
\* for 999, for every slug and every previous value.
C11_SentinelRejected ==
    (v_out # NoneV /\ (v_raw = NoneV \/ v_raw = Some(SENTINEL))) =>
        v_out[1] = [valid |-> FALSE, val |-> NoneV]

\* 999 was rejected for a slug whose only declared bound, min = 0, it satisfies
C11_Witness ==
    /\ v_out # NoneV
    /\ v_raw = Some(SENTINEL)
    /\ v_slug = S_LEVEL
    /\ ~v_out[1].valid
    /\ v_out[1].val = NoneV

\* the validated slug declares max_delta
HasMaxDelta ==
    /\ v_slug \in DOMAIN params_map
    /\ params_map[v_slug].max_delta # NoneV

\* the validated number is further from the previous one than max_delta allows
ExceedsMaxDelta ==
    /\ v_raw # NoneV /\ ~IsNaN(v_raw)
    /\ v_cached # NoneV /\ ~IsNaN(v_cached)
    /\ Abs(v_cached[1] - v_raw[1]) > params_map[v_slug].max_delta[1]

\* C12: max-delta validation. For a parameter that declares max_delta, with or
\* without min or max, a number further than max_delta from the previous
\* cached value is rejected.
C12_MaxDeltaEnforced ==
    (v_out # NoneV /\ HasMaxDelta /\ ExceedsMaxDelta) => ~v_out[1].valid

\* where max_delta is enforced: only next to a declared min or max
C12_MaxDeltaWithBounds ==
    (v_out # NoneV /\ HasMaxDelta /\ HasDeclaredBounds /\ ExceedsMaxDelta) =>
        ~v_out[1].valid

\* the keyword of the table that decides for the validated slug: the first one
\* in table order that the slug contains, 0 if it contains none
FirstKeyword ==
    LET hits == {i \in 1..Len(VALIDATION_RANGES) :
                    IsSubstring(VALIDATION_RANGES[i].keyword, v_slug)}
    IN IF hits = {} THEN 0 ELSE CHOOSE i \in hits : \A j \in hits : i <= j

\* the validated number lies within the range of the deciding keyword
WithinFirstKeyword ==
    \/ FirstKeyword = 0
    \/ /\ ~IsNaN(v_raw)
       /\ VALIDATION_RANGES[FirstKeyword].min <= v_raw[1]
       /\ v_raw[1] <= VALIDATION_RANGES[FirstKeyword].max

\* C13 (as claimed): without declared min or max, a number is rejected iff it
\* lies outside the range of the first keyword of the table that the slug
\* contains, and accepted if the slug contains none.
C13_FirstKeywordDecides ==
    (v_out # NoneV /\ ~HasDeclaredBounds /\ v_raw # NoneV) =>
        (v_out[1].valid <=> WithinFirstKeyword)

\* C13 (amended): the same for every number other than the sentinel 999, which
\* is rejected whatever the slug contains; an accepted number is returned as is.
C13_FirstKeywordDecidesNonSentinel ==
    (v_out # NoneV /\ ~HasDeclaredBounds /\ v_raw # NoneV
     /\ v_raw # Some(SENTINEL)) =>
        /\ v_out[1].valid <=> WithinFirstKeyword
        /\ v_out[1].val = IF WithinFirstKeyword THEN v_raw ELSE NoneV

\* 5.5 was accepted for a slug containing "pressure" and "temp": the range of
\* "temp", first in the table, decided, the range of "pressure" was not asked
C13_Witness ==
    /\ v_out # NoneV
    /\ v_slug = S_PRESSTEMP
    /\ v_raw = Some(550)
    /\ FirstKeyword = 1
    /\ v_out[1].valid

\* the slugs of the list the loop iterates
Iterated == {c_iter[i] : i \in 1..Len(c_iter)}

\* C14: per-slug failure isolation. When the fetch or the validation of a slug
\* raises, the cycle's result holds the slug's cached value if there is one
\* and nothing for the slug otherwise, the cache is untouched, and the loop
\* goes on: every slug of the list is examined before the cycle returns.
C14_FailureIsolated ==
    /\ c_last.kind = "raise" =>
        /\ c_pc \in {"loop", "idle"}
        /\ c_pc = "idle" => CycleReturned
        /\ c_pc = "loop" => c_iter[c_idx] # c_last.slug
        /\ c_build[c_last.slug] = c_last.pre_cache
        /\ c_cache[c_last.slug] = c_last.pre_cache
        /\ c_ts[c_last.slug] = c_last.pre_ts
    /\ c_pc = "loop" => c_ghost.examined = {c_iter[i] : i \in 1..c_idx}
    /\ CycleReturned =>
        /\ c_ghost.examined = Iterated
        /\ c_data = c_build

\* the fetch of a slug with a cached value raised; the value is in the result
\* and the loop now awaits the fetch of the next slug
C14_Witness ==
    /\ c_last.kind = "raise"
    /\ c_last.pre_cache # NoneV
    /\ c_build[c_last.slug] = c_last.pre_cache
    /\ c_pc = "loop"
    /\ c_iter[c_idx] # c_last.slug

\* C15: discovery runs once. After the first refresh cycle has returned, no
\* cycle executes _detect_available_parameters.
C15_DiscoveryOnce ==
    c_setup => c_pc # "disc"

\* when the scan does run: in a cycle that found available_slugs empty
C15_ScanOnlyWhenEmpty ==
    c_pc = "disc" => c_available = <<>>

\* C16: after the discovery scan, available_slugs holds, once each, exactly
\* the targets present in the parameter map for which a scan read returned a
\* value other than the sentinel 999; targets absent from the map are not read.
C16_AvailableAfterScan ==
    /\ c_ghost.discfetch \subseteq
           {CTargets[i] : i \in 1..Len(CTargets)} \cap DOMAIN params_map
    /\ c_ghost.discok \cup c_ghost.discbad \subseteq c_ghost.discfetch
    /\ c_ghost.scanned =>
        /\ {c_available[i] : i \in 1..Len(c_available)} = c_ghost.discok
        /\ \A i, j \in 1..Len(c_available) :
               c_available[i] = c_available[j] => i = j

\* a scan is over in which a target listed twice was read as 999 once and as
\* a value once and is retained once, another was read as 999 and is not, and
\* the target absent from the map was not read
C16_Witness ==
    /\ c_ghost.scanned
    /\ S_TEMPSET \in c_ghost.discbad \cap c_ghost.discok
    /\ S_TEMP \in c_ghost.discbad \ c_ghost.discok
    /\ S_GHOST \notin c_ghost.discfetch
    /\ c_available = <<S_TEMPSET>>

\* every call made by the event loop has returned and no worker thread runs
ThreadsQuiet == \A t \in Threads : x_th[t].pc = "idle"

\* C17: at most one physical transaction (connect-send-receive-close) is in
\* flight on the device at any time, however the read of a refresh cycle and
\* the write of a background task interleave.
C17_OneTransactionInFlight ==
    Cardinality(x_inflight) <= 1

\* C18: the session counter is incremented by exactly one (mod 65000) before
\* every physical transaction: once all calls have returned it equals
\* (10 + n) mod 65000 after n transactions, also when a read and a write ran in
\* overlapping worker threads.
C18_SessionCountsTransactions ==
    ThreadsQuiet => x_session = (SESSION_START + x_txns) % SESSION_MODULUS

\* the part of C18 that the code keeps: the counter stays in 0..64999
C18_SessionInRange ==
    x_session \in 0..(SESSION_MODULUS - 1)

\* C19: set_value performs at most 3 physical transactions per call; no
\* transaction follows one that yielded a response and the call then returns
\* True; it returns False only after 3 transactions without a response (or
\* without any transaction when there is nothing to send); a timeout or socket
\* error never ends the call in another way.
C19_SetValueAtMostThree ==
    LET th == x_th["set"] IN
    /\ th.txns <= WRITE_ATTEMPTS
    /\ th.okat # 0 => th.txns = th.okat
    /\ th.ret = "true" => th.okat # 0
    /\ th.ret = "false" => th.okat = 0 /\ th.txns \in {0, WRITE_ATTEMPTS}
    /\ (th.pc = "idle" /\ th.calls > 0) => th.ret \in {"true", "false"}
    /\ (th.pc = "idle" /\ th.calls > 0 /\ th.okat # 0) => th.ret = "true"

\* set_value returned True on its second transaction, after a first one
\* without a response
C19_Witness ==
    /\ x_th["set"].pc = "idle"
    /\ x_th["set"].ret = "true"
    /\ x_th["set"].txns = 2
    /\ x_th["set"].okat = 2

\* C20: get_value for a slug absent from the parameter map ends in a way the
\* caller can tell apart from the None of exhausted retries.
C20_UnknownParameterDistinct ==
    (GetValueDone /\ d_slug \notin DOMAIN params_map) => d_ret # NoneV

\* the part of C20 that the code keeps: nothing is sent or received for a slug
\* absent from the parameter map
C20_UnknownNoTransaction ==
    (GetValueDone /\ d_slug \notin DOMAIN params_map) =>
        d_rx = <<>> /\ d_val = NoneV /\ d_got = NoneV

\* C21: frame round trip. The bytes of to_bytes(f), delivered whole in any
\* chunking to an empty reassembler, are parsed back by read_frame into a frame
\* with exactly the dest, src, func and data of f, and into nothing else.
C21_FrameRoundTrip ==
    t_scn = "clean" =>
        /\ t_yielded \in {<<>>, <<t_frame>>}
        /\ t_pos = Len(t_stream) => t_yielded = <<t_frame>>

\* a frame with framing bytes in its address and payload has come back
C21_Witness ==
    /\ t_scn = "clean"
    /\ t_frame.dest = 26728
    /\ t_frame.func = 104
    /\ t_frame.data = <<104, 0, 255>>
    /\ t_yielded = <<t_frame>>

\* C24: read_frame never reports a connection failure (closed connection,
\* socket-level exception) with the result it gives for a timeout, None.
C24_FailureDistinctFromTimeout ==
    (t_pc = "idle" /\ t_why \in {"closed", "reset"}) => t_ret # NoneV

\* the part of C24 that the code keeps: a frame is told apart from the rest
C24_FrameDistinct ==
    t_pc = "idle" => (t_ret # NoneV <=> t_why = "frame")

\* the bytes between the broken head and the frame of the "overlap" stream
OverlapGap ==
    SubSeq(t_stream, Len(BrokenHead) + 1, Len(t_stream) - Len(to_bytes(t_frame)))

\* C29: a complete candidate that fails the checks loses its leading start byte
\* only, so the valid frame that starts inside it is yielded once delivered.
C29_FrameInsideRejectedYielded ==
    t_scn = "overlap" =>
        /\ t_yielded \in {<<>>, <<t_frame>>}
        /\ t_pos = Len(t_stream) => t_yielded = <<t_frame>>

\* the part of C29 that the code keeps: after the rejection the buffer holds
\* every delivered byte from the next start byte on, and the frame is yielded
\* when no other start byte precedes it
C29_LaterBytesKept ==
    t_scn = "overlap" =>
        /\ (t_pos >= 7 /\ t_yielded = <<>>) =>
              \E k \in 2..(t_pos + 1) :
                 /\ \A j \in 2..(k - 1) : t_stream[j] # START_BYTE
                 /\ k <= t_pos => t_stream[k] = START_BYTE
                 /\ t_buffer = SubSeq(t_stream, k, t_pos)
        /\ (t_pos = Len(t_stream) /\ OverlapGap # <<START_BYTE>>) =>
              t_yielded = <<t_frame>>

\* total_len of the candidate at the front of the "front" stream
FrontLen == t_stream[2] + 256 * t_stream[3] + 6

\* C30: once a candidate that passes the CRC and stop-byte checks is complete
\* at the front of the buffer, a frame has been returned for it and exactly its
\* total_len bytes have left the buffer: the bytes delivered after it are
\* still there, unchanged, until they are consumed as a frame themselves.
C30_ConsumesExactlyTotalLen ==
    (t_scn = "front" /\ t_pos >= FrontLen) =>
        /\ Len(t_yielded) >= 1
        /\ Len(t_yielded) = 1 => t_buffer = SubSeq(t_stream, FrontLen + 1, t_pos)

\* the part of C30 that the code keeps: candidates with at least dest, src and
\* func in their content
C30_ConsumesDecodable ==
    (t_scn = "front" /\ t_pos >= FrontLen /\ FrontLen >= 11) =>
        /\ Len(t_yielded) >= 1
        /\ Len(t_yielded) = 1 => t_buffer = SubSeq(t_stream, FrontLen + 1, t_pos)

\* _decode was given the bytes C8 00 for a parameter of type WORD
DecodedWord200(exp) ==
    /\ k_pc = "raw"
    /\ k_bytes = Some(<<200, 0>>)
    /\ k_def = [type |-> "WORD", exponent |-> exp]

\* C22: the bytes C8 00 (200) of a WORD parameter with exponent 1 decode to
\* 20.0.
C22_Word200Exponent1 ==
    DecodedWord200(1) => k_out = Some(2000)

\* what the code does with C8 00: 200 * 10^exponent, so 2000 for exponent 1
\* and 20.0 for exponent -1
C22_Word200TimesPowerOfTen ==
    /\ DecodedWord200(1) => k_out = Some(200000)
    /\ DecodedWord200(-1) => k_out = Some(2000)

\* the range of raw integers of a type
TypeRange(ptype) ==
    IF ptype = "BYTE" THEN 0..255
    ELSE IF ptype = "SHORT_INT" THEN -128..127
    ELSE IF ptype = "BOOL" THEN 0..1
    ELSE IF ptype = "INT" THEN -32768..32767
    ELSE IF ptype = "WORD" THEN 0..65535
    ELSE IF ptype = "DWORD" THEN 0..2147483647
    ELSE -2147483647..2147483647

\* the value is representable in the type after scaling: value / 10^exponent
\* is an integer of the type's range (any value for the float and string types)
Representable ==
    \/ k_def.type \in {"FLOAT", "STRING"}
    \/ /\ k_v % (10 ^ (k_def.exponent + 2)) = 0
       /\ (k_v \div (10 ^ (k_def.exponent + 2))) \in TypeRange(k_def.type)

\* C23: value round trip. For every type, every exponent in -2..2 and every
\* value representable in the type after scaling, _encode gives bytes and
\* _decode of these bytes gives the value back (to 2 decimals).
C23_ValueRoundTrip ==
    (k_pc \in {"encoded", "decoded"} /\ Representable) =>
        /\ k_bytes # NoneV
        /\ k_pc = "decoded" => k_out = Some(k_v)

\* the part of C23 that the code keeps: the float type without scaling, and
\* the integer types for the raw integers that the signed 16-bit and unsigned
\* 8-bit packing of the code can carry
C23_RoundTripWherePackingFits ==
    (/\ k_pc \in {"encoded", "decoded"}
     /\ Representable
     /\ k_def.type # "STRING"
     /\ k_def.type = "FLOAT" => k_def.exponent = 0
     /\ k_def.type = "SHORT_INT" => k_v >= 0
     /\ k_def.type = "WORD" => k_v \div (10 ^ (k_def.exponent + 2)) <= 32767) =>
        /\ k_bytes # NoneV
        /\ k_pc = "decoded" => k_out = Some(k_v)

\* the transactions of a get_value call for a known slug: never more than
\* `retries`, none after one that yielded a value, at least one and `retries`
\* of them when none yielded a value, and the value yielded is the one returned
ReadsBounded ==
    (d_calls > 0 /\ d_slug \in DOMAIN params_map) =>
        /\ d_txns <= d_retries
        /\ d_pc = "attempt" => d_got = NoneV
        /\ GetValueDone =>
             /\ d_txns >= 1
             /\ d_got # NoneV => d_ret = d_got /\ d_val = d_got
             /\ d_got = NoneV => d_txns = d_retries

\* C28: one get_value call for a known slug performs between 1 and `retries`
\* physical read transactions, stops at the first that yields a value and
\* returns that value, and always terminates.
C28_BoundedReadsAndTermination ==
    /\ []ReadsBounded
    /\ (d_pc = "attempt") ~> (d_pc = "idle")

\* a call with retries = 2 returned the value its second transaction yielded
C28_Witness ==
    /\ GetValueDone
    /\ d_retries = 2
    /\ d_txns = 2
    /\ d_got # NoneV
    /\ d_ret = d_got

\* the one write to S_TEMPSET was optimistic only: all its sends failed
UnconfirmedWrite ==
    /\ Len(c_tasks) = 1
    /\ c_tasks[1].slug = S_TEMPSET
    /\ c_tasks[1].done
    /\ c_tasks[1].oks = 0

\* the last step was the return of a device read of S_TEMPSET by the loop,
\* begun and ended with the written value in the cache
RereadOfWritten ==
    /\ c_last.kind \in {"accept", "reject"}
    /\ c_last.slug = S_TEMPSET
    /\ c_last.pre_cache = Some(c_tasks[1].value)
    /\ c_last.snap = Some(c_tasks[1].value)

\* C25: after an optimistic write whose physical sends all failed, the first
\* cycle that reads the slug from the device and obtains its true value d (a
\* value within the declared bounds) leaves cache[slug] = d and returns d.
C25_RereadRepairs ==
    (/\ UnconfirmedWrite
     /\ RereadOfWritten
     /\ c_last.value = Some(2500)) =>
        /\ c_cache[S_TEMPSET] = Some(2500)
        /\ c_build[S_TEMPSET] = Some(2500)

\* what the code does in the case of C25: the value read is more than max_delta
\* away from the value written, it is rejected and the written value stays
C25_WrittenValueHeld ==
    (/\ UnconfirmedWrite
     /\ RereadOfWritten
     /\ c_last.value = Some(2500)) =>
        /\ c_last.kind = "reject"
        /\ c_cache[S_TEMPSET] = Some(c_tasks[1].value)
        /\ c_build[S_TEMPSET] = Some(c_tasks[1].value)

\* C26: every read and write of the cache map and the timestamp map, by the
\* refresh cycle, the write path and the consumers of the published data,
\* happens while the cache lock is held.
C26_CacheOnlyUnderLock ==
    c_last.locked

\* the part of C26 that the code keeps: the optimistic write of
\* async_set_value is made under the lock
C26_WritePathLocked ==
    c_last.kind = "set" => c_last.locked

\* the published value is missing, NaN, infinite or refused by float(): a
\* string that is no number
NoNumber ==
    \/ n_val \in {NoneV, NaNV, InfV("+"), InfV("-")}
    \/ n_val \in {StrV("nan", 0), StrV("inf", 0), StrV("txt", 0)}

\* C27: for a numeric sensor native_value is None whenever the published value
\* is missing, NaN, infinite or not convertible to a number, and the value as
\* a float otherwise; available is False whenever the value is missing or NaN.
C27_SensorGuards ==
    /\ (n_numeric /\ n_native # Unread) =>
          /\ NoNumber => n_native = NoneV
          /\ ~NoNumber => n_native = <<n_val[IF Len(n_val) = 1 THEN 1 ELSE 3]>>
    /\ (n_avail # NoneV /\ n_val \in {NoneV, NaNV}) => n_avail = Some(FALSE)

\* a numeric sensor was read while an infinity was published
C27_Witness ==
    /\ n_numeric
    /\ n_val = InfV("-")
    /\ n_native = NoneV
    /\ n_avail = Some(n_base)

\* the function code of the answer received last: byte 7 of the frame
RxFunc == d_rx[8]

\* C31: a read request (function code 0x43) takes a frame as its response only
\* if the frame's function code is 0x43 | 0x80 = 0xC3: a value is never decoded
\* from a frame that carries another function code.
C31_ResponseFunctionChecked ==
    (GetValueDone /\ d_got # NoneV) => RxFunc = CMD_READ_VAL + 128

\* the part of C31 that holds: the GM3_HA driver compares the function code
C31_GM3FunctionChecked ==
    (GetValueDone /\ d_got # NoneV /\ d_variant = "GM3_HA") =>
        RxFunc = CMD_READ_VAL + 128

\* the loop's read of a slug has just returned; while it was awaited the slug
\* was written (the cache no longer held what the loop had seen) and the task
\* of that write has not sent anything yet: the device was read before the
\* write's first physical send
ReadBeforeFirstSend ==
    /\ c_last.kind \in {"accept", "reject"}
    /\ c_last.snap # c_last.pre_cache
    /\ \E i \in 1..Len(c_tasks) :
         /\ c_tasks[i].slug = c_last.slug
         /\ Some(c_tasks[i].value) = c_last.pre_cache
         /\ c_tasks[i].sent = 0

\* C37: an optimistic write made while a refresh cycle is fetching the same
\* slug is not lost: when that cycle finishes, the slug's cache entry is not a
\* device value that was read before the write's first physical send.
C37_WriteNotLost ==
    (ReadBeforeFirstSend /\ CycleReturned) =>
        c_cache[c_last.slug] # c_last.value

\* the part of C37 that holds: a value read before the first send and rejected
\* by the validation leaves the written value in the cache
C37_WriteKeptOnReject ==
    (ReadBeforeFirstSend /\ CycleReturned /\ c_last.kind = "reject") =>
        c_cache[c_last.slug] = c_last.pre_cache

\* C38: the cache map and the timestamp map have the same key set: every slug
\* with a cached value has a timestamp and every slug with a timestamp has a
\* cached value.
C38_SameKeys ==
    \A s \in CSlugs : (c_cache[s] # NoneV) <=> (c_ts[s] # 0)

\* the part of C38 that holds: the coordinator's own write and the refresh
\* cycle set both maps together, so a slug with a timestamp has a value
C38_TimestampHasValue ==
    \A s \in CSlugs : (c_ts[s] # 0) => (c_cache[s] # NoneV)

\* two writes v1 then v2 to the same known slug, both values encodable and
\* different, both delivery tasks over, and the last step was a physical send
\* for that slug: the last send the device received for it
BothDelivered ==
    /\ Len(c_tasks) = 2
    /\ c_tasks[1].slug = c_tasks[2].slug
    /\ c_tasks[1].slug \in DOMAIN params_map
    /\ c_tasks[1].value # c_tasks[2].value
    /\ \A i \in 1..2 : /\ c_tasks[i].done
                       /\ _encode(c_tasks[i].value, params_map[c_tasks[i].slug]) # NoneV
    /\ c_last.kind = "send"

\* C36: for two coordinator writes to the same slug, v1 then v2, once both
\* background tasks have finished the last physical write sent to the device
\* for that slug carries v2, in every interleaving of the two tasks.
C36_LastSendCarriesLatest ==
    BothDelivered => c_last.value = Some(c_tasks[2].value)

\* the part of C36 that holds: the cache keeps v2, whatever the order of the
\* sends, and each task sends its own value only
C36_CacheKeepsLatest ==
    BothDelivered =>
        /\ c_cache[c_tasks[2].slug] = Some(c_tasks[2].value)
        /\ c_last.value \in {Some(c_tasks[1].value), Some(c_tasks[2].value)}

\* what set_value was called with cannot be sent: the slug is absent from the
\* parameter map or _encode gives nothing for the value
NothingToSend(th) ==
    \/ th.slug \notin DOMAIN params_map
    \/ _encode(th.value, params_map[th.slug]) = NoneV

\* C35: set_value fails without performing any physical transaction and
\* without changing the session counter when the slug is absent from the
\* parameter map or the value cannot be encoded for the declared type: the
\* call is over in the step that begins it, returns False, and leaves the
\* session counter, the transaction count and the open sockets as they were.
C35_RejectedWithoutTransaction ==
    [][(x_th'["set"].calls # x_th["set"].calls /\ NothingToSend(x_th'["set"])) =>
          /\ x_th'["set"].pc = "idle"
          /\ x_th'["set"].ret = "false"
          /\ x_th'["set"].txns = 0
          /\ x_session' = x_session
          /\ x_txns' = x_txns
          /\ x_inflight' = x_inflight]_vars

\* set_value has returned False for a known slug and a value that does not fit
\* the 16-bit word, while a read transaction of get_value was in flight
C35_Witness ==
    /\ x_th["set"].calls = 1
    /\ x_th["set"].slug = S_TEMPSET
    /\ x_th["set"].value = 4000000
    /\ x_th["set"].ret = "false"
    /\ x_th["set"].txns = 0
    /\ x_inflight = {"get"}

\* the width in bytes of a declared type the codec knows
TypeWidth(ptype) ==
    IF ptype \in {"BYTE", "SHORT_INT", "BOOL"} THEN 1
    ELSE IF ptype \in {"INT", "WORD"} THEN 2
    ELSE 4

\* the codec was given fewer bytes than the declared type is wide
ShortData ==
    /\ k_def.type # "STRING"
    /\ k_bytes # NoneV
    /\ Len(k_bytes[1]) < TypeWidth(k_def.type)

\* C34: decoding a byte string shorter than the width of the declared type
\* (1 byte for BYTE/SHORT_INT/BOOL, 2 for INT/WORD, 4 for DWORD/LONG_INT/FLOAT)
\* yields no value, and the read attempt it belongs to has failed (it returns
\* no value).
C34_ShortDataNoValue ==
    (k_pc \in {"raw", "read"} /\ ShortData) => k_out = NoneV

\* a read attempt received three bytes for a 32-bit parameter and failed
C34_Witness ==
    /\ k_pc = "read"
    /\ k_def.type = "DWORD"
    /\ k_bytes = Some(<<200, 0, 0>>)
    /\ k_out = NoneV

\* an integer of the codec model that the declared type holds but the signed
\* (16 bit) or unsigned (8 bit) packing does not: 40000 for WORD, a negative
\* whole number for SHORT_INT; exponent 0
SignednessCase ==
    /\ k_def.exponent = 0
    /\ \/ k_def.type = "WORD" /\ k_v = 4000000
       \/ k_def.type = "SHORT_INT" /\ k_v \in {-12800, -100}

\* C40: integer values are encoded and decoded with the signedness of their
\* declared type: an unsigned 16-bit (WORD) value in 32768..65535 and a
\* negative signed 8-bit (SHORT_INT) value encode successfully and decode to
\* the same value. (The claim says the same of DWORD values from 2^31 on;
\* in hundredths they lie beyond the integers of the model, the 16-bit and
\* 8-bit cases are the ones checked.)
C40_SignednessOfType ==
    /\ (k_pc = "encoded" /\ SignednessCase) => k_bytes # NoneV
    /\ (k_pc = "decoded" /\ SignednessCase) => k_out = Some(k_v)

\* what the code does in the case of C40: nothing is encoded for these values,
\* and the bytes 40 9C (40000 as an unsigned 16-bit number) decode for a WORD
\* to -25536
C40_PackedWithFixedSign ==
    /\ (k_pc = "encoded" /\ SignednessCase) => k_bytes = NoneV
    /\ (k_pc = "raw" /\ k_def.type = "WORD" /\ k_def.exponent = 0
          /\ k_bytes = Some(<<64, 156>>)) => k_out = Some(-2553600)

\* C39: the driver's frame builder and the frame codec are equivalent:
\* _build_frame(cmd, payload) is byte for byte BoilerFrame(1, 100, cmd,
\* payload).to_bytes(), its length field is 5 + len(payload), _crc16 equals
\* compute_crc16, and the built frame passes the reassembler's CRC and
\* stop-byte checks: read_frame returns it with the same fields and keeps
\* nothing in the buffer.
C39_BuilderEqualsCodec ==
    /\ (b_frame # NoneV /\ b_ref # NoneV) => b_frame = b_ref
    /\ b_frame # NoneV =>
          /\ b_frame[1][2] + 256 * b_frame[1][3] = 5 + Len(b_payload)
          /\ Len(b_frame[1]) = 11 + Len(b_payload)
    /\ b_crc # NoneV => b_crc[1][1] = b_crc[1][2]
    /\ b_parsed # NoneV =>
          /\ b_parsed[1].kind = "frame"
          /\ b_parsed[1].buf = <<>>
          /\ b_parsed[1].frame = Some([dest |-> DEST_ID, src |-> SOURCE_ID,
                                       func |-> b_cmd, data |-> b_payload])

\* a read request whose payload is a start byte and a stop byte was built by
\* both, checksummed by both and parsed
C39_Witness ==
    /\ b_cmd = CMD_READ_VAL
    /\ b_payload = <<START_BYTE, STOP_BYTE>>
    /\ b_frame # NoneV
    /\ b_ref = b_frame
    /\ b_crc # NoneV
    /\ b_parsed # NoneV
    /\ b_parsed[1].kind = "frame"

\* a coroutine of the coordinator is suspended in a call of the driver
DeviceAwaited ==
    \/ l_pc = "get"
    \/ \E w \in LWrites : l_w[w].pc = "send"

\* C33: the cache lock is never held while a device read or write is awaited:
\* in the refresh cycle and in the write path the lock is released before
\* device.get_value or device.set_value is called, so a coordinator write
\* finds the lock free whatever network transaction is in progress.
C33_LockFreeDuringDeviceCalls ==
    DeviceAwaited => l_lock = "none"

\* the refresh cycle awaits get_value for its second slug, after a snapshot
\* and a store inside the lock, while a write task awaits its third set_value
C33_Witness ==
    /\ l_pc = "get"
    /\ l_idx = 2
    /\ S_TEMPSET \in l_fresh
    /\ \E w \in LWrites : l_w[w].pc = "send" /\ l_w[w].sent = 2
    /\ l_lock = "none"

\* the loop's get_value for a slug has just returned, and every physical read
\* attempt it made had failed
ReadsAllFailed ==
    /\ c_last.kind \in {"accept", "reject"}
    /\ s_phys = Some(FALSE)

\* C32: a cache entry's value and timestamp change only when a physical read
\* performed during this refresh cycle succeeded and its value passed
\* validation (or when an optimistic write is made): a refresh in which every
\* physical read attempt for the slug failed leaves that slug's cache value
\* and timestamp unchanged.
C32_FailedReadsLeaveCache ==
    ReadsAllFailed =>
        /\ c_cache[c_last.slug] = c_last.pre_cache
        /\ c_ts[c_last.slug] = c_last.pre_ts

\* the part of C32 that holds: the refresh cycle changes an entry only with a
\* value that get_value returned and the validation accepted, the value and
\* the timestamp together; when get_value returns nothing the entry stays
C32_ChangeOnlyOnAcceptedValue ==
    /\ c_last.kind = "reject" =>
          /\ c_cache[c_last.slug] = c_last.pre_cache
          /\ c_ts[c_last.slug] = c_last.pre_ts
    /\ c_last.kind = "accept" =>
          /\ c_last.value # NoneV
          /\ c_cache[c_last.slug] = c_last.value
          /\ c_ts[c_last.slug] = c_last.at
    /\ (c_last.kind \in {"accept", "reject"} /\ c_last.value = NoneV) =>
          c_last.kind = "reject"

====
